---- MODULE Spec2Model ----
(***************************************************************************)
(* State-machine model of the iwcore wallet data engine: the encrypted     *)
(* item / field / label store (database/queries.rs), the Wallet handle     *)
(* with its password and decrypted caches (business/*.rs), the             *)
(* transaction primitives (database/connection.rs) and the crypto envelope *)
(* (crypto/key.rs, crypto/aes.rs).                                         *)
(*                                                                         *)
(* Abstractions.  MD5 is an injective function and AES-CBC with the MD5    *)
(* prefix is an ideal authenticated cipher: a ciphertext is the pair (key, *)
(* plaintext) and decrypts exactly under its key.  Row order of SQL        *)
(* results is not modelled (tables are functions, views are sets), and a   *)
(* query_row over several matching rows returns any one of them.           *)
(* Timestamps are not modelled.  Random ids are drawn from a small pool.   *)
(***************************************************************************)
EXTENDS Integers, Sequences, FiniteSets, TLC

VARIABLES
    items,            \* nswallet_items as seen by the connection: item_id -> row
    fields,           \* nswallet_fields: <<item_id, field_id>> -> row
    labels,           \* nswallet_labels: field_type -> row
    txn,              \* None, or Some(durable tables) while a transaction is open
    password,         \* Wallet.password: Option<String>
    encryption_count, \* Wallet.encryption_count
    items_cache,      \* Wallet.items_cache: Option<set of decrypted items>
    fields_cache,     \* Wallet.fields_cache
    labels_cache,     \* Wallet.labels_cache
    backup_folder,    \* the files of the backup folder, by name
    db_version,       \* nswallet_properties.version of the database file, or None
    properties,       \* the other columns of the nswallet_properties row
    current_password, \* history: the password given to create or to the latest
                      \* successful change_password
    wal_pending,      \* a write of this connection has not been followed by
                      \* PRAGMA wal_checkpoint(TRUNCATE)
    last,             \* the last call: [op, res, ret]
    nops              \* calls the run may still make

vars == <<items, fields, labels, txn, password, encryption_count,
          items_cache, fields_cache, labels_cache, backup_folder, db_version,
          properties, current_password, wal_pending, last, nops>>

store == <<items, fields, labels>>
wallet == <<password, encryption_count, items_cache, fields_cache, labels_cache>>

-----------------------------------------------------------------------------
(* Bounds *)

MaxItems == 3
MaxFields == 4
MaxOps == 2
MaxTreeOps == 5
MaxFieldOps == 4
MaxPwOps == 4

(* Program constants *)

KEY_LENGTH == 32
ENCRYPTION_COUNT_DEFAULT == 200
StoredEncryptionCount == 0
ROOT_ID == "__ROOT__"
ROOT_PARENT_ID == "________"
SEARCH_MIN_LENGTH == 3

None == <<>>
Some(x) == <<x>>

-----------------------------------------------------------------------------
(* Input pools *)

ItemIdNames == <<"i1", "i2", "i3", "i4", "i5", "i6">>
FieldIdNames == <<"f1", "f2", "f3", "f4", "f5", "f6">>
ItemIdPool == {ItemIdNames[n] : n \in 1..MaxItems}
FieldIdPool == {FieldIdNames[n] : n \in 1..MaxFields}
AnyItemId == {ROOT_ID} \cup ItemIdPool

\* Passwords are sequences of character codes; <<97>> and <<97, 97>> pad to
\* the same 32 characters.
PwPool == {<<97>>, <<98>>, <<97, 97>>}
\* Strings are sequences of characters.
Plaintexts == {<<"a", "b", "c">>, <<"A", "b", "d">>}
RootData == <<"root">>

-----------------------------------------------------------------------------
(* crypto/key.rs, crypto/aes.rs *)

\* Whether the padding loop of derive_key_from_password ends: every turn
\* appends the password to a text shorter than KEY_LENGTH.
pad_loop_ends(pw) == Len(pw) >= KEY_LENGTH \/ Len(pw) > 0

RECURSIVE PadPassword(_, _)
PadPassword(padded, pw) ==
    IF Len(padded) < KEY_LENGTH THEN PadPassword(padded \o pw, pw) ELSE padded

\* A key is the 32 characters s with MD5 applied n times; z marks byte 0
\* forced to zero on a hashed key (for n = 0 the byte is zeroed in s).
derive_key_from_password(pw, count) ==
    [s |-> SubSeq(PadPassword(pw, pw), 1, KEY_LENGTH), n |-> count, z |-> FALSE]

prepare_key(pw, count) == derive_key_from_password(pw, count)

ios_key(key) ==
    IF key.n = 0 THEN [key EXCEPT !.s = [key.s EXCEPT ![1] = 0]]
    ELSE [key EXCEPT !.z = TRUE]

encrypt(plaintext, pw, count) == [k |-> prepare_key(pw, count), p |-> plaintext]

decrypt_with_key(ct, key) == IF ct.k = key THEN Some(ct.p) ELSE None

decrypt(ct, pw, count) ==
    LET key == prepare_key(pw, count)
        first == decrypt_with_key(ct, key)
    IN IF first # None THEN first ELSE decrypt_with_key(ct, ios_key(key))

-----------------------------------------------------------------------------
(* database/queries.rs: statements over the tables I (items), F (fields),  *)
(* Lb (labels).  Each returns the table(s) after the statement.            *)

get_all_items_raw(I) == {id \in DOMAIN I : ~I[id].deleted}

\* A faulty get_deleted_items_raw: the WHERE deleted = 1 is missing.
get_deleted_items_raw_unfiltered(I) == DOMAIN I

get_deleted_items_raw(I) == {id \in DOMAIN I : I[id].deleted}

get_root_item_raw(I) == IF ROOT_ID \in DOMAIN I THEN Some(I[ROOT_ID].name) ELSE None

\* INSERT: the caller checks the primary key.
queries_create_item(I, item_id, parent_id, name_encrypted, icon, folder) ==
    (item_id :> [parent_id |-> parent_id, name |-> name_encrypted, icon |-> icon,
                 folder |-> folder, deleted |-> FALSE]) @@ I

queries_update_item_name(I, item_id, name_encrypted) ==
    [x \in DOMAIN I |-> IF x = item_id THEN [I[x] EXCEPT !.name = name_encrypted] ELSE I[x]]

queries_update_item_icon(I, item_id, icon) ==
    [x \in DOMAIN I |-> IF x = item_id THEN [I[x] EXCEPT !.icon = icon] ELSE I[x]]

queries_update_item_parent(I, item_id, parent_id) ==
    [x \in DOMAIN I |-> IF x = item_id THEN [I[x] EXCEPT !.parent_id = parent_id] ELSE I[x]]

update_item_name_only(I, item_id, name_encrypted) ==
    [x \in DOMAIN I |-> IF x = item_id THEN [I[x] EXCEPT !.name = name_encrypted] ELSE I[x]]

\* UPDATE items SET deleted = 1 WHERE item_id = ?; UPDATE fields SET deleted = 1
\* WHERE item_id = ? AND deleted = 0.
queries_delete_item(I, F, item_id) ==
    [items |-> [x \in DOMAIN I |->
                    IF x = item_id THEN [I[x] EXCEPT !.deleted = TRUE] ELSE I[x]],
     fields |-> [k \in DOMAIN F |->
                    IF k[1] = item_id THEN [F[k] EXCEPT !.deleted = TRUE] ELSE F[k]]]

\* rows > 0 of UPDATE ... WHERE item_id = ? AND deleted = 1
\* A faulty undelete_item: the WHERE clause lacks AND deleted = 1.
undelete_item_rows_any(I, item_id) == item_id \in DOMAIN I

undelete_item_rows(I, item_id) == item_id \in DOMAIN I /\ I[item_id].deleted

\* A faulty undelete_item: the row comes back under its former parent.
queries_undelete_item_in_place(I, item_id) ==
    [x \in DOMAIN I |->
        IF x = item_id /\ I[x].deleted THEN [I[x] EXCEPT !.deleted = FALSE] ELSE I[x]]

queries_undelete_item(I, item_id) ==
    [x \in DOMAIN I |->
        IF x = item_id /\ I[x].deleted
        THEN [I[x] EXCEPT !.deleted = FALSE, !.parent_id = ROOT_ID] ELSE I[x]]

\* One level of the recursive CTE: the rows whose parent is in the frontier.
cte_children(I, frontier, active_only) ==
    {c \in DOMAIN I : I[c].parent_id \in frontier /\ (active_only => ~I[c].deleted)}

\* WITH RECURSIVE descendants ... UNION ALL: the rows produced level by level.
\* UNION ALL keeps duplicates, so the recursion ends only when a level is
\* empty; on a parent cycle it never does (diverges).
RECURSIVE cte_descendants(_, _, _, _)
cte_descendants(I, frontier, active_only, fuel) ==
    IF frontier = {} THEN [ids |-> {}, diverges |-> FALSE]
    ELSE IF fuel = 0 THEN [ids |-> frontier, diverges |-> TRUE]
    ELSE LET rest == cte_descendants(I, cte_children(I, frontier, active_only),
                                     active_only, fuel - 1)
         IN [ids |-> frontier \cup rest.ids, diverges |-> rest.diverges]

descendants_active(I, item_id) ==
    cte_descendants(I, cte_children(I, {item_id}, TRUE), TRUE, Cardinality(DOMAIN I))

descendants_all(I, item_id) ==
    cte_descendants(I, cte_children(I, {item_id}, FALSE), FALSE, Cardinality(DOMAIN I))

\* A faulty delete_item_descendants: the second statement walks active rows
\* only, as the first does, and so finds none of the rows just deleted.
delete_item_descendants_active_walk(I, F, item_id) ==
    LET d1 == descendants_active(I, item_id)
        I1 == [x \in DOMAIN I |->
                  IF x \in d1.ids THEN [I[x] EXCEPT !.deleted = TRUE] ELSE I[x]]
        d2 == descendants_active(I1, item_id)
        F2 == [k \in DOMAIN F |->
                  IF k[1] \in d2.ids THEN [F[k] EXCEPT !.deleted = TRUE] ELSE F[k]]
    IN [diverges1 |-> d1.diverges, items |-> I1,
        diverges2 |-> d2.diverges, fields |-> F2]

\* The two statements of delete_item_descendants.  The first walks active
\* rows only; the second, run after it, walks every row.
delete_item_descendants(I, F, item_id) ==
    LET d1 == descendants_active(I, item_id)
        I1 == [x \in DOMAIN I |->
                  IF x \in d1.ids THEN [I[x] EXCEPT !.deleted = TRUE] ELSE I[x]]
        d2 == descendants_all(I1, item_id)
        F2 == [k \in DOMAIN F |->
                  IF k[1] \in d2.ids THEN [F[k] EXCEPT !.deleted = TRUE] ELSE F[k]]
    IN [diverges1 |-> d1.diverges, items |-> I1,
        diverges2 |-> d2.diverges, fields |-> F2]

get_all_fields_raw(F) == {k \in DOMAIN F : ~F[k].deleted}

get_deleted_fields_raw(F) == {k \in DOMAIN F : F[k].deleted}

queries_create_field(F, item_id, field_id, field_type, value_encrypted, sort_weight) ==
    (<<item_id, field_id>> :> [type |-> field_type, value |-> value_encrypted,
                               deleted |-> FALSE, sort_weight |-> sort_weight]) @@ F

\* A faulty delete_field: DELETE FROM instead of SET deleted = 1.
queries_delete_field_hard(F, item_id, field_id) ==
    [k \in DOMAIN F \ {<<item_id, field_id>>} |-> F[k]]

queries_delete_field(F, item_id, field_id) ==
    [k \in DOMAIN F |->
        IF k = <<item_id, field_id>> THEN [F[k] EXCEPT !.deleted = TRUE] ELSE F[k]]

\* A faulty update_field_value_only: the UPDATE matches soft-deleted rows only.
update_field_value_only_deleted_rows(F, item_id, field_id, value_encrypted) ==
    [k \in DOMAIN F |->
        IF k = <<item_id, field_id>> /\ F[k].deleted
        THEN [F[k] EXCEPT !.value = value_encrypted] ELSE F[k]]

update_field_value_only(F, item_id, field_id, value_encrypted) ==
    [k \in DOMAIN F |->
        IF k = <<item_id, field_id>> THEN [F[k] EXCEPT !.value = value_encrypted] ELSE F[k]]

undelete_field_rows(F, item_id, field_id) ==
    <<item_id, field_id>> \in DOMAIN F /\ F[<<item_id, field_id>>].deleted

queries_undelete_field(F, item_id, field_id) ==
    [k \in DOMAIN F |->
        IF k = <<item_id, field_id>> /\ F[k].deleted
        THEN [F[k] EXCEPT !.deleted = FALSE] ELSE F[k]]

\* The rows query_row may return: SELECT ... WHERE field_id = ? AND deleted = 0
get_field_raw_by_id(F, field_id) ==
    {k \in DOMAIN F : k[2] = field_id /\ ~F[k].deleted}

\* SELECT field_id ... WHERE item_id = ? AND type = 'OLDP' AND deleted = 0
get_oldp_field_id(F, item_id) ==
    {k[2] : k \in {j \in DOMAIN F : j[1] = item_id /\ F[j].type = "OLDP" /\ ~F[j].deleted}}

get_max_field_weight(F, item_id) ==
    LET ws == {F[k].sort_weight : k \in {j \in DOMAIN F : j[1] = item_id /\ ~F[j].deleted}}
    IN IF ws = {} THEN 0 ELSE CHOOSE w \in ws : \A v \in ws : v <= w

\* A faulty purge_deleted: the orphan sweep is missing, the active fields of
\* soft-deleted items stay (and are not counted).
purge_deleted_without_orphan_sweep(I, F, Lb) ==
    LET gone_items == {x \in DOMAIN I : I[x].deleted}
        gone_fields == {k \in DOMAIN F : F[k].deleted}
    IN [items_count |-> Cardinality(gone_items),
        fields_count |-> Cardinality(gone_fields),
        items |-> [x \in DOMAIN I \ gone_items |-> I[x]],
        fields |-> [k \in DOMAIN F \ gone_fields |-> F[k]],
        labels |-> [t \in {u \in DOMAIN Lb : ~Lb[u].deleted} |-> Lb[t]]]

\* A faulty purge_deleted: the rows are counted and the fields deleted, but the
\* DELETE of the soft-deleted items is missing.
purge_deleted_keeping_items(I, F, Lb) ==
    LET gone_items == {x \in DOMAIN I : I[x].deleted}
        gone_fields == {k \in DOMAIN F : F[k].deleted \/ k[1] \in gone_items}
    IN [items_count |-> Cardinality(gone_items),
        fields_count |-> Cardinality(gone_fields),
        items |-> I,
        fields |-> [k \in DOMAIN F \ gone_fields |-> F[k]],
        labels |-> [t \in {u \in DOMAIN Lb : ~Lb[u].deleted} |-> Lb[t]]]

\* The counts are taken first, then the four DELETE statements run.
purge_deleted(I, F, Lb) ==
    LET gone_items == {x \in DOMAIN I : I[x].deleted}
        gone_fields == {k \in DOMAIN F : F[k].deleted \/ k[1] \in gone_items}
    IN [items_count |-> Cardinality(gone_items),
        fields_count |-> Cardinality(gone_fields),
        items |-> [x \in DOMAIN I \ gone_items |-> I[x]],
        fields |-> [k \in DOMAIN F \ gone_fields |-> F[k]],
        labels |-> [t \in {u \in DOMAIN Lb : ~Lb[u].deleted} |-> Lb[t]]]

label_usage(F, field_type) ==
    Cardinality({k \in DOMAIN F : F[k].type = field_type /\ ~F[k].deleted})

\* SELECT ... FROM nswallet_labels l WHERE l.deleted = 0, with the usage subquery
get_all_labels(Lb, F) ==
    {[field_type |-> t, name |-> Lb[t].name, value_type |-> Lb[t].value_type,
      icon |-> Lb[t].icon, system |-> Lb[t].system, deleted |-> Lb[t].deleted,
      usage |-> label_usage(F, t)] : t \in {u \in DOMAIN Lb : ~Lb[u].deleted}}

\* INSERT OR IGNORE: an existing primary key leaves the table as it is.
create_label(Lb, field_type, name, value_type, icon, system) ==
    IF field_type \in DOMAIN Lb THEN Lb
    ELSE (field_type :> [name |-> name, value_type |-> value_type, icon |-> icon,
                         system |-> system, deleted |-> FALSE]) @@ Lb

queries_update_label_name(Lb, field_type, name) ==
    [t \in DOMAIN Lb |-> IF t = field_type THEN [Lb[t] EXCEPT !.name = name] ELSE Lb[t]]

queries_update_label_icon(Lb, field_type, icon) ==
    [t \in DOMAIN Lb |-> IF t = field_type THEN [Lb[t] EXCEPT !.icon = icon] ELSE Lb[t]]

\* A faulty delete_label: the label is soft-deleted whatever the count is.
queries_delete_label_unconditional(Lb, F, field_type) ==
    [count |-> label_usage(F, field_type),
     labels |-> [t \in DOMAIN Lb |->
                    IF t = field_type THEN [Lb[t] EXCEPT !.deleted = TRUE] ELSE Lb[t]]]

queries_delete_label(Lb, F, field_type) ==
    LET count == label_usage(F, field_type)
    IN [count |-> count,
        labels |-> IF count = 0
                   THEN [t \in DOMAIN Lb |->
                            IF t = field_type THEN [Lb[t] EXCEPT !.deleted = TRUE] ELSE Lb[t]]
                   ELSE Lb]

-----------------------------------------------------------------------------
(* business/wallet.rs: the Wallet handle *)

ensure_unlocked == password # None

\* Wallet::is_unlocked
is_unlocked == password # None

\* A call returns: record it and use up one call of the run.
Returned(op, res, ret) ==
    /\ last' = [op |-> op, res |-> res, ret |-> ret]
    /\ nops' = nops - 1
    /\ UNCHANGED <<backup_folder, db_version, properties>>

\* database/queries.rs: the calls whose writing statements all run through a
\* query that ends with PRAGMA wal_checkpoint(TRUNCATE).
CheckpointingCalls ==
    {"add_item", "add_field", "add_label", "copy_item", "compact", "delete_field",
     "delete_item", "delete_label", "move_item", "undelete_field", "undelete_item",
     "update_field", "update_item_icon", "update_item_name", "update_label_icon",
     "update_label_name"}

\* Whether a write is left without its checkpoint when the call is over.
\* change_password writes through update_item_name_only and
\* update_field_value_only, which issue no checkpoint, and none follows its
\* COMMIT; a call that never returns has not reached its checkpoint; the other
\* writing queries end with the checkpoint, whether or not a row matched;
\* queries::delete_label writes and checkpoints only when no field uses the
\* label.
wal_pending_after(op, res, ret) ==
    IF op = "change_password" \/ res = "hang"
    THEN wal_pending \/ store' # store
    ELSE IF op = "delete_label" /\ ret[1] > 0
    THEN wal_pending
    ELSE IF op \in CheckpointingCalls /\ (res = "ok" \/ store' # store)
    THEN FALSE
    ELSE wal_pending

\* A call other than a successful change_password returns.
Return(op, res, ret) ==
    /\ Returned(op, res, ret)
    /\ UNCHANGED current_password
    /\ wal_pending' = wal_pending_after(op, res, ret)

\* The process is running and not stuck inside a call.
Ready == nops > 0 /\ last.res # "hang"

\* The tables a reopened connection sees: an open transaction is discarded.
durable_tables ==
    IF txn = None THEN [items |-> items, fields |-> fields, labels |-> labels]
    ELSE txn[1]

(* business/labels.rs *)

load_labels_if_needed ==
    IF labels_cache # None THEN labels_cache ELSE Some(get_all_labels(labels, fields))

(* business/items.rs *)

ItemView(id) ==
    [item_id |-> id, parent_id |-> items[id].parent_id,
     name |-> decrypt(items[id].name, password[1], encryption_count)[1],
     icon |-> items[id].icon, folder |-> items[id].folder, deleted |-> items[id].deleted]

\* [ok, cache]: the cache after the call; ok is FALSE on a DecryptionError.
load_items_if_needed ==
    IF items_cache # None THEN [ok |-> TRUE, cache |-> items_cache]
    ELSE IF \A id \in get_all_items_raw(items) :
                decrypt(items[id].name, password[1], encryption_count) # None
         THEN [ok |-> TRUE, cache |-> Some({ItemView(id) : id \in get_all_items_raw(items)})]
         ELSE [ok |-> FALSE, cache |-> None]

(* business/fields.rs *)

FieldView(k, lc) ==
    LET ls == {l \in lc[1] : l.field_type = fields[k].type}
        l == IF ls = {} THEN [name |-> "Unknown", icon |-> "unknown", value_type |-> "text"]
             ELSE CHOOSE x \in ls : TRUE
    IN [item_id |-> k[1], field_id |-> k[2], field_type |-> fields[k].type,
        value |-> decrypt(fields[k].value, password[1], encryption_count)[1],
        label |-> l.name, icon |-> l.icon, value_type |-> l.value_type,
        sort_weight |-> fields[k].sort_weight, deleted |-> fields[k].deleted]

\* [ok, cache, labels]: the fields cache and the labels cache after the call.
load_fields_if_needed ==
    IF fields_cache # None
    THEN [ok |-> TRUE, cache |-> fields_cache, labels |-> labels_cache]
    ELSE LET lc == load_labels_if_needed
         IN IF \A k \in get_all_fields_raw(fields) :
                   decrypt(fields[k].value, password[1], encryption_count) # None
            THEN [ok |-> TRUE, labels |-> lc,
                  cache |-> Some({FieldView(k, lc) : k \in get_all_fields_raw(fields)})]
            ELSE [ok |-> FALSE, cache |-> None, labels |-> lc]

-----------------------------------------------------------------------------
(* Wallet::create: the state after construction *)

SystemLabels ==
    <<  <<"MAIL", "Email", "mail", "mail">>, <<"PASS", "Password", "pass", "pass">>,
        <<"NOTE", "Note", "text", "note">>, <<"LINK", "Link", "link", "link">>,
        <<"ACNT", "Account", "text", "account">>, <<"CARD", "Card", "text", "card">>,
        <<"NAME", "Name", "text", "name">>, <<"PHON", "Phone", "phon", "phone">>,
        <<"PINC", "PIN", "pass", "pin">>, <<"USER", "Username", "text", "user">>,
        <<"OLDP", "Old Password", "pass", "oldpass">>, <<"DATE", "Date", "date", "date">>,
        <<"TIME", "Time", "time", "time">>, <<"EXPD", "Expiry Date", "date", "expiry">>,
        <<"SNUM", "Serial Number", "text", "serial">>, <<"ADDR", "Address", "text", "address">>,
        <<"SQUE", "Secret Question", "text", "question">>,
        <<"SANS", "Secret Answer", "pass", "answer">>, <<"2FAC", "2FA", "pass", "2fa">>,
        <<"SEED", "Seed Phrase", "text", "seed">> >>

add_system_labels ==
    [t \in {SystemLabels[n][1] : n \in DOMAIN SystemLabels} |->
        LET l == CHOOSE x \in {SystemLabels[n] : n \in DOMAIN SystemLabels} : x[1] = t
        IN [name |-> l[2], value_type |-> l[3], icon |-> l[4],
            system |-> TRUE, deleted |-> FALSE]]

init_new_database(pw) ==
    /\ items = queries_create_item(<<>>, ROOT_ID, ROOT_PARENT_ID,
                                   encrypt(RootData, pw, 0), "", TRUE)
    /\ fields = <<>>
    /\ labels = add_system_labels

create(pw, budget) ==
    /\ init_new_database(pw)
    /\ txn = None
    /\ password = Some(pw)
    /\ current_password = pw
    /\ wal_pending = FALSE
    /\ encryption_count = 0
    /\ items_cache = None
    /\ fields_cache = None
    /\ labels_cache = None
    /\ last = [op |-> "create", res |-> "ok", ret |-> <<>>]
    /\ nops = budget

-----------------------------------------------------------------------------
(* Lock state *)

\* A faulty unlock: any password is taken for the right one.
unlock_result_accepting(I, pw) ==
    IF get_root_item_raw(I) = None THEN "DatabaseError" ELSE "true"

\* What unlock(pw) decides from the stored root row and the stored count.
unlock_result(I, pw) ==
    LET root_name == get_root_item_raw(I)
    IN IF root_name = None THEN "DatabaseError"
       ELSE IF decrypt(root_name[1], pw, StoredEncryptionCount) # None THEN "true"
       ELSE "false"

\* The call does not return when the key derivation inside decrypt does not.
unlock(pw) ==
    /\ Ready
    /\ UNCHANGED <<store, txn>>
    /\ IF get_root_item_raw(items) # None /\ ~pad_loop_ends(pw)
       THEN /\ encryption_count' = StoredEncryptionCount
            /\ UNCHANGED <<password, items_cache, fields_cache, labels_cache>>
            /\ Return("unlock", "hang", <<>>)
       ELSE LET r == unlock_result(items, pw)
            IN /\ encryption_count' =
                      IF r = "DatabaseError" THEN encryption_count ELSE StoredEncryptionCount
               /\ IF r = "true"
                  THEN /\ password' = Some(pw)
                       /\ items_cache' = None /\ fields_cache' = None /\ labels_cache' = None
                  ELSE UNCHANGED <<password, items_cache, fields_cache, labels_cache>>
               /\ IF r = "DatabaseError" THEN Return("unlock", "DatabaseError", <<>>)
                  ELSE Return("unlock", "ok", <<r = "true">>)

lock ==
    /\ Ready
    /\ password' = None
    /\ items_cache' = None /\ fields_cache' = None /\ labels_cache' = None
    /\ UNCHANGED <<store, txn, encryption_count>>
    /\ Return("lock", "ok", <<>>)

check_password(pw) ==
    /\ Ready
    /\ UNCHANGED <<store, txn, wallet>>
    /\ LET root_name == get_root_item_raw(items)
       IN IF root_name = None THEN Return("check_password", "DatabaseError", <<>>)
          ELSE IF ~pad_loop_ends(pw) THEN Return("check_password", "hang", <<>>)
          ELSE Return("check_password", "ok",
                      <<decrypt(root_name[1], pw, encryption_count) # None>>)

\* Wallet::close (or the process ending) followed by Wallet::open.  ret keeps
\* the keys of the rows the closed connection had inserted inside a
\* transaction that was never committed.
reopen ==
    /\ nops > 0
    /\ items' = durable_tables.items
    /\ fields' = durable_tables.fields
    /\ labels' = durable_tables.labels
    /\ txn' = None
    /\ password' = None
    /\ encryption_count' = ENCRYPTION_COUNT_DEFAULT
    /\ items_cache' = None /\ fields_cache' = None /\ labels_cache' = None
    /\ Return("open", "ok", <<DOMAIN items \ DOMAIN durable_tables.items,
                             DOMAIN fields \ DOMAIN durable_tables.fields>>)

-----------------------------------------------------------------------------
(* business/items.rs: one action per Wallet method.  Random ids are a      *)
(* parameter of the action.                                                *)

get_items ==
    /\ Ready
    /\ UNCHANGED <<store, txn, password, encryption_count, fields_cache, labels_cache>>
    /\ IF ~ensure_unlocked
       THEN UNCHANGED items_cache /\ Return("get_items", "Locked", <<>>)
       ELSE /\ items_cache' = load_items_if_needed.cache
            /\ IF load_items_if_needed.ok THEN Return("get_items", "ok", <<>>)
               ELSE Return("get_items", "DecryptionError", <<>>)

get_item(item_id) ==
    /\ Ready
    /\ UNCHANGED <<store, txn, password, encryption_count, fields_cache, labels_cache>>
    /\ IF ~ensure_unlocked
       THEN UNCHANGED items_cache /\ Return("get_item", "Locked", <<>>)
       ELSE /\ items_cache' = load_items_if_needed.cache
            /\ IF load_items_if_needed.ok
               THEN Return("get_item", "ok",
                           <<{i \in load_items_if_needed.cache[1] : i.item_id = item_id}>>)
               ELSE Return("get_item", "DecryptionError", <<>>)

add_item(name, icon, folder, parent_id, item_id) ==
    /\ Ready
    /\ UNCHANGED <<fields, labels, txn, password, encryption_count,
                   fields_cache, labels_cache>>
    /\ IF ~ensure_unlocked
       THEN UNCHANGED <<items, items_cache>> /\ Return("add_item", "Locked", <<>>)
       ELSE IF item_id \in DOMAIN items
       THEN UNCHANGED <<items, items_cache>> /\ Return("add_item", "DatabaseError", <<>>)
       ELSE /\ items' = queries_create_item(
                            items, item_id,
                            IF parent_id = None THEN ROOT_ID ELSE parent_id[1],
                            encrypt(name, password[1], encryption_count), icon, folder)
            /\ items_cache' = None
            /\ Return("add_item", "ok", <<item_id>>)

update_item_name(item_id, name) ==
    /\ Ready
    /\ UNCHANGED <<fields, labels, txn, password, encryption_count,
                   fields_cache, labels_cache>>
    /\ IF ~ensure_unlocked
       THEN UNCHANGED <<items, items_cache>> /\ Return("update_item_name", "Locked", <<>>)
       ELSE /\ items' = queries_update_item_name(
                            items, item_id, encrypt(name, password[1], encryption_count))
            /\ items_cache' = None
            /\ Return("update_item_name", "ok", <<>>)

update_item_icon(item_id, icon) ==
    /\ Ready
    /\ UNCHANGED <<fields, labels, txn, password, encryption_count,
                   fields_cache, labels_cache>>
    /\ items' = queries_update_item_icon(items, item_id, icon)
    /\ items_cache' = None
    /\ Return("update_item_icon", "ok", <<>>)

move_item(item_id, new_parent_id) ==
    /\ Ready
    /\ UNCHANGED <<fields, labels, txn, password, encryption_count,
                   fields_cache, labels_cache>>
    /\ items' = queries_update_item_parent(items, item_id, new_parent_id)
    /\ items_cache' = None
    /\ Return("move_item", "ok", <<>>)

delete_item(item_id) ==
    /\ Ready
    /\ UNCHANGED <<labels, txn, password, encryption_count, labels_cache>>
    /\ IF ~ensure_unlocked
       THEN /\ UNCHANGED <<items, fields, items_cache, fields_cache>>
            /\ Return("delete_item", "Locked", <<>>)
       ELSE IF ~load_items_if_needed.ok
       THEN /\ UNCHANGED <<items, fields, items_cache, fields_cache>>
            /\ Return("delete_item", "DecryptionError", <<>>)
       ELSE LET is_folder == \E i \in load_items_if_needed.cache[1] :
                                 i.item_id = item_id /\ i.folder
                d == delete_item_descendants(items, fields, item_id)
                r == IF is_folder THEN queries_delete_item(d.items, d.fields, item_id)
                     ELSE queries_delete_item(items, fields, item_id)
            IN IF is_folder /\ d.diverges1
               THEN /\ UNCHANGED <<items, fields, fields_cache>>
                    /\ items_cache' = load_items_if_needed.cache
                    /\ Return("delete_item", "hang", <<>>)
               ELSE IF is_folder /\ d.diverges2
               THEN /\ items' = d.items
                    /\ UNCHANGED <<fields, fields_cache>>
                    /\ items_cache' = load_items_if_needed.cache
                    /\ Return("delete_item", "hang", <<>>)
               ELSE /\ items' = r.items
                    /\ fields' = r.fields
                    /\ items_cache' = None
                    /\ fields_cache' = None
                    /\ Return("delete_item", "ok", <<>>)

\* The items get_deleted_items returns: rows that do not decrypt are skipped.
deleted_items_view ==
    {ItemView(id) : id \in {x \in get_deleted_items_raw(items) :
                               decrypt(items[x].name, password[1], encryption_count) # None}}

get_deleted_items ==
    /\ Ready
    /\ UNCHANGED <<store, txn, wallet>>
    /\ IF ~ensure_unlocked THEN Return("get_deleted_items", "Locked", <<>>)
       ELSE Return("get_deleted_items", "ok", <<deleted_items_view>>)

undelete_item(item_id) ==
    /\ Ready
    /\ UNCHANGED <<fields, labels, txn, password, encryption_count,
                   fields_cache, labels_cache>>
    /\ IF ~ensure_unlocked
       THEN UNCHANGED <<items, items_cache>> /\ Return("undelete_item", "Locked", <<>>)
       ELSE IF ~undelete_item_rows(items, item_id)
       THEN UNCHANGED <<items, items_cache>> /\ Return("undelete_item", "ItemNotFound", <<>>)
       ELSE /\ items' = queries_undelete_item(items, item_id)
            /\ items_cache' = None
            /\ Return("undelete_item", "ok", <<>>)

-----------------------------------------------------------------------------
(* business/fields.rs *)

get_fields ==
    /\ Ready
    /\ UNCHANGED <<store, txn, password, encryption_count, items_cache>>
    /\ IF ~ensure_unlocked
       THEN UNCHANGED <<fields_cache, labels_cache>> /\ Return("get_fields", "Locked", <<>>)
       ELSE /\ fields_cache' = load_fields_if_needed.cache
            /\ labels_cache' = load_fields_if_needed.labels
            /\ IF load_fields_if_needed.ok THEN Return("get_fields", "ok", <<>>)
               ELSE Return("get_fields", "DecryptionError", <<>>)

get_fields_by_item(item_id) ==
    /\ Ready
    /\ UNCHANGED <<store, txn, password, encryption_count, items_cache>>
    /\ IF ~ensure_unlocked
       THEN /\ UNCHANGED <<fields_cache, labels_cache>>
            /\ Return("get_fields_by_item", "Locked", <<>>)
       ELSE /\ fields_cache' = load_fields_if_needed.cache
            /\ labels_cache' = load_fields_if_needed.labels
            /\ IF load_fields_if_needed.ok
               THEN Return("get_fields_by_item", "ok",
                           <<{f \in load_fields_if_needed.cache[1] : f.item_id = item_id}>>)
               ELSE Return("get_fields_by_item", "DecryptionError", <<>>)

\* The weight add_field stores: the given one, or max + 100.
next_weight(F, item_id, sort_weight) ==
    IF sort_weight = None THEN get_max_field_weight(F, item_id) + 100 ELSE sort_weight[1]

add_field(item_id, field_type, value, sort_weight, field_id) ==
    /\ Ready
    /\ UNCHANGED <<items, labels, txn, password, encryption_count,
                   items_cache, labels_cache>>
    /\ IF ~ensure_unlocked
       THEN UNCHANGED <<fields, fields_cache>> /\ Return("add_field", "Locked", <<>>)
       ELSE IF <<item_id, field_id>> \in DOMAIN fields
       THEN UNCHANGED <<fields, fields_cache>> /\ Return("add_field", "DatabaseError", <<>>)
       ELSE /\ fields' = queries_create_field(
                             fields, item_id, field_id, field_type,
                             encrypt(value, password[1], encryption_count),
                             next_weight(fields, item_id, sort_weight))
            /\ fields_cache' = None
            /\ Return("add_field", "ok", <<field_id>>)

\* update_field once query_row has returned the row old (a key of fields)
\* and, for a PASS field, get_oldp_field_id has returned oldp (None: no row).
update_field_on(old, oldp, field_id, value, sort_weight, new_field_id) ==
    LET F1 == IF fields[old].type = "PASS" /\ oldp # None
              THEN update_field_value_only(fields, old[1], oldp[1], fields[old].value)
              ELSE fields
        weight == IF sort_weight = None THEN fields[old].sort_weight ELSE sort_weight[1]
        F2 == queries_delete_field(F1, old[1], field_id)
    IN IF <<old[1], new_field_id>> \in DOMAIN F2
       THEN /\ fields' = F2
            /\ UNCHANGED fields_cache
            /\ Return("update_field", "DatabaseError", <<>>)
       ELSE /\ fields' = queries_create_field(
                             F2, old[1], new_field_id, fields[old].type,
                             encrypt(value, password[1], encryption_count), weight)
            /\ fields_cache' = None
            /\ Return("update_field", "ok", <<new_field_id>>)

\* The values get_oldp_field_id may return for the row old.
oldp_choices(old) ==
    IF get_oldp_field_id(fields, old[1]) = {} THEN {None}
    ELSE {Some(o) : o \in get_oldp_field_id(fields, old[1])}

update_field(field_id, value, sort_weight, new_field_id) ==
    /\ Ready
    /\ UNCHANGED <<items, labels, txn, password, encryption_count,
                   items_cache, labels_cache>>
    /\ IF ~ensure_unlocked
       THEN UNCHANGED <<fields, fields_cache>> /\ Return("update_field", "Locked", <<>>)
       ELSE IF get_field_raw_by_id(fields, field_id) = {}
       THEN UNCHANGED <<fields, fields_cache>> /\ Return("update_field", "FieldNotFound", <<>>)
       ELSE \E old \in get_field_raw_by_id(fields, field_id) :
                \E oldp \in oldp_choices(old) :
                    update_field_on(old, oldp, field_id, value, sort_weight, new_field_id)

delete_field(item_id, field_id) ==
    /\ Ready
    /\ UNCHANGED <<items, labels, txn, password, encryption_count,
                   items_cache, labels_cache>>
    /\ fields' = queries_delete_field(fields, item_id, field_id)
    /\ fields_cache' = None
    /\ Return("delete_field", "ok", <<>>)

\* The fields get_deleted_fields returns: rows that do not decrypt are skipped.
deleted_fields_view ==
    {FieldView(k, load_labels_if_needed) :
        k \in {j \in get_deleted_fields_raw(fields) :
                  decrypt(fields[j].value, password[1], encryption_count) # None}}

get_deleted_fields ==
    /\ Ready
    /\ UNCHANGED <<store, txn, password, encryption_count, items_cache, fields_cache>>
    /\ IF ~ensure_unlocked
       THEN UNCHANGED labels_cache /\ Return("get_deleted_fields", "Locked", <<>>)
       ELSE /\ labels_cache' = load_labels_if_needed
            /\ Return("get_deleted_fields", "ok", <<deleted_fields_view>>)

undelete_field(item_id, field_id) ==
    /\ Ready
    /\ UNCHANGED <<items, labels, txn, password, encryption_count,
                   items_cache, labels_cache>>
    /\ IF ~ensure_unlocked
       THEN UNCHANGED <<fields, fields_cache>> /\ Return("undelete_field", "Locked", <<>>)
       ELSE IF ~undelete_field_rows(fields, item_id, field_id)
       THEN UNCHANGED <<fields, fields_cache>> /\ Return("undelete_field", "FieldNotFound", <<>>)
       ELSE /\ fields' = queries_undelete_field(fields, item_id, field_id)
            /\ fields_cache' = None
            /\ Return("undelete_field", "ok", <<>>)

\* copy_field, and move_field when then_delete: get_fields_by_item, find,
\* add_field on the target and, for a move, delete_field on the source.
copy_or_move_field(op, source_item_id, field_id, target_item_id, new_field_id, then_delete) ==
    /\ Ready
    /\ UNCHANGED <<items, labels, txn, password, encryption_count, items_cache>>
    /\ IF ~ensure_unlocked
       THEN UNCHANGED <<fields, fields_cache, labels_cache>> /\ Return(op, "Locked", <<>>)
       ELSE IF ~load_fields_if_needed.ok
       THEN /\ UNCHANGED <<fields, fields_cache>>
            /\ labels_cache' = load_fields_if_needed.labels
            /\ Return(op, "DecryptionError", <<>>)
       ELSE LET found == {f \in load_fields_if_needed.cache[1] :
                             f.item_id = source_item_id /\ f.field_id = field_id}
            IN /\ labels_cache' = load_fields_if_needed.labels
               /\ IF found = {}
                  THEN /\ UNCHANGED fields
                       /\ fields_cache' = load_fields_if_needed.cache
                       /\ Return(op, "InvalidOperation", <<>>)
                  ELSE IF <<target_item_id, new_field_id>> \in DOMAIN fields
                  THEN /\ UNCHANGED fields
                       /\ fields_cache' = load_fields_if_needed.cache
                       /\ Return(op, "DatabaseError", <<>>)
                  ELSE LET f == CHOOSE x \in found : TRUE
                           F1 == queries_create_field(
                                     fields, target_item_id, new_field_id, f.field_type,
                                     encrypt(f.value, password[1], encryption_count),
                                     next_weight(fields, target_item_id, None))
                       IN /\ fields' = IF then_delete
                                       THEN queries_delete_field(F1, source_item_id, field_id)
                                       ELSE F1
                          /\ fields_cache' = None
                          /\ Return(op, "ok", IF then_delete THEN <<>> ELSE <<new_field_id>>)

copy_field(source_item_id, field_id, target_item_id, new_field_id) ==
    copy_or_move_field("copy_field", source_item_id, field_id, target_item_id,
                       new_field_id, FALSE)

move_field(source_item_id, field_id, target_item_id, new_field_id) ==
    copy_or_move_field("move_field", source_item_id, field_id, target_item_id,
                       new_field_id, TRUE)

-----------------------------------------------------------------------------
(* business/labels.rs *)

get_labels ==
    /\ Ready
    /\ UNCHANGED <<store, txn, password, encryption_count, items_cache, fields_cache>>
    /\ labels_cache' = load_labels_if_needed
    /\ Return("get_labels", "ok", <<>>)

add_label(name, icon, value_type, label_id) ==
    /\ Ready
    /\ UNCHANGED <<items, fields, txn, password, encryption_count,
                   items_cache, fields_cache>>
    /\ labels' = create_label(labels, label_id, name, value_type, icon, FALSE)
    /\ IF label_id \in DOMAIN labels
       THEN UNCHANGED labels_cache /\ Return("add_label", "InvalidOperation", <<>>)
       ELSE labels_cache' = None /\ Return("add_label", "ok", <<label_id>>)

update_label_name(field_type, name) ==
    /\ Ready
    /\ UNCHANGED <<items, fields, txn, password, encryption_count,
                   items_cache, fields_cache>>
    /\ labels' = queries_update_label_name(labels, field_type, name)
    /\ labels_cache' = None
    /\ Return("update_label_name", "ok", <<>>)

update_label_icon(field_type, icon) ==
    /\ Ready
    /\ UNCHANGED <<items, fields, txn, password, encryption_count,
                   items_cache, fields_cache>>
    /\ labels' = queries_update_label_icon(labels, field_type, icon)
    /\ labels_cache' = None
    /\ Return("update_label_icon", "ok", <<>>)

delete_label(field_type) ==
    /\ Ready
    /\ UNCHANGED <<items, fields, txn, password, encryption_count,
                   items_cache, fields_cache>>
    /\ labels' = queries_delete_label(labels, fields, field_type).labels
    /\ labels_cache' = None
    /\ Return("delete_label", "ok", <<queries_delete_label(labels, fields, field_type).count>>)

-----------------------------------------------------------------------------
(* business/items.rs: copy_item *)

RECURSIVE copy_fields(_, _, _, _, _, _)
\* add_field on the new item for each field of todo, with the ids new_field_ids.
copy_fields(F, todo, new_item_id, new_field_ids, pw, count) ==
    IF todo = {} THEN F
    ELSE LET f == CHOOSE x \in todo : TRUE
         IN copy_fields(queries_create_field(F, new_item_id, new_field_ids[f.field_id],
                                             f.field_type, encrypt(f.value, pw, count),
                                             f.sort_weight),
                        todo \ {f}, new_item_id, new_field_ids, pw, count)

\* The INSERT of add_field for k fails on the primary key once done are in.
copy_clash(k, done, new_item_id, new_field_ids) ==
    \/ new_field_ids[k.field_id] \in {new_field_ids[j.field_id] : j \in done}
    \/ <<new_item_id, new_field_ids[k.field_id]>> \in DOMAIN fields

copy_item(source_item_id, new_item_id, new_field_ids) ==
    /\ Ready
    /\ UNCHANGED <<labels, txn, password, encryption_count>>
    /\ IF ~ensure_unlocked
       THEN /\ UNCHANGED <<items, fields, items_cache, fields_cache, labels_cache>>
            /\ Return("copy_item", "Locked", <<>>)
       ELSE IF ~load_items_if_needed.ok
       THEN /\ UNCHANGED <<items, fields, items_cache, fields_cache, labels_cache>>
            /\ Return("copy_item", "DecryptionError", <<>>)
       ELSE LET found == {i \in load_items_if_needed.cache[1] : i.item_id = source_item_id}
                source_item == CHOOSE i \in found : TRUE
                I1 == queries_create_item(
                          items, new_item_id, source_item.parent_id,
                          encrypt(<<"C", "o", "p", "y", " ", "o", "f", " ">> \o source_item.name,
                                  password[1], encryption_count),
                          source_item.icon, source_item.folder)
                lf == load_fields_if_needed
                source_fields == {f \in lf.cache[1] : f.item_id = source_item_id}
            IN IF found = {}
               THEN /\ UNCHANGED <<items, fields, fields_cache, labels_cache>>
                    /\ items_cache' = load_items_if_needed.cache
                    /\ Return("copy_item", "InvalidOperation", <<>>)
               ELSE IF new_item_id \in DOMAIN items
               THEN /\ UNCHANGED <<items, fields, fields_cache, labels_cache>>
                    /\ items_cache' = load_items_if_needed.cache
                    /\ Return("copy_item", "DatabaseError", <<>>)
               ELSE IF source_item.folder
               THEN /\ items' = I1
                    /\ items_cache' = None
                    /\ UNCHANGED <<fields, fields_cache, labels_cache>>
                    /\ Return("copy_item", "ok", <<new_item_id>>)
               ELSE IF ~lf.ok
               THEN /\ items' = I1
                    /\ items_cache' = None
                    /\ labels_cache' = lf.labels
                    /\ UNCHANGED <<fields, fields_cache>>
                    /\ Return("copy_item", "DecryptionError", <<>>)
               ELSE \E done \in SUBSET source_fields :
                        /\ \A k \in done : ~copy_clash(k, done \ {k}, new_item_id, new_field_ids)
                        /\ \/ done = source_fields
                           \/ \E k \in source_fields \ done :
                                  copy_clash(k, done, new_item_id, new_field_ids)
                        /\ items' = I1
                        /\ items_cache' = None
                        /\ labels_cache' = lf.labels
                        /\ fields' = copy_fields(fields, done, new_item_id, new_field_ids,
                                                 password[1], encryption_count)
                        /\ fields_cache' = IF done = {} THEN lf.cache ELSE None
                        /\ IF done = source_fields
                           THEN Return("copy_item", "ok", <<new_item_id>>)
                           ELSE Return("copy_item", "DatabaseError", <<>>)

-----------------------------------------------------------------------------
(* business/search.rs *)

\* str::to_lowercase over the letters the inputs use.
to_lower(s) ==
    [n \in DOMAIN s |-> IF s[n] = "A" THEN "a"
                        ELSE IF s[n] = "B" THEN "b"
                        ELSE IF s[n] = "C" THEN "c"
                        ELSE IF s[n] = "D" THEN "d" ELSE s[n]]

contains_phrase(text, phrase) ==
    \E n \in 0..Len(text) :
        /\ n + Len(phrase) <= Len(text)
        /\ SubSeq(to_lower(text), n + 1, n + Len(phrase)) = to_lower(phrase)

is_valid_search_phrase(phrase) == Len(phrase) >= SEARCH_MIN_LENGTH

\* The SearchMatchType of a result: (name_match, field_match).
match_type(name_match, field_match) ==
    IF name_match /\ field_match THEN "Both"
    ELSE IF name_match THEN "Name" ELSE "Field"

\* Whether the name of the cached item i matches: folders never do.
name_match(i, query) == ~i.folder /\ contains_phrase(i.name, query)

\* The cached fields of the item i whose value holds the query.
matching_fields(fc, i, query) ==
    {f \in fc : f.item_id = i.item_id /\ contains_phrase(f.value, query)}

\* The results of search over the cached views ic, fc.
search_results(ic, fc, query) ==
    {[item |-> i,
      matching_fields |-> matching_fields(fc, i, query),
      match_type |-> match_type(name_match(i, query),
                                matching_fields(fc, i, query) # {})] :
        i \in {x \in ic : /\ x.item_id # ROOT_ID
                          /\ \/ name_match(x, query)
                             \/ matching_fields(fc, x, query) # {}}}

search(query) ==
    /\ Ready
    /\ UNCHANGED <<store, txn, password, encryption_count>>
    /\ IF ~ensure_unlocked
       THEN /\ UNCHANGED <<items_cache, fields_cache, labels_cache>>
            /\ Return("search", "Locked", <<>>)
       ELSE IF ~is_valid_search_phrase(query)
       THEN /\ UNCHANGED <<items_cache, fields_cache, labels_cache>>
            /\ Return("search", "ok", <<{}>>)
       ELSE IF ~load_items_if_needed.ok
       THEN /\ UNCHANGED <<items_cache, fields_cache, labels_cache>>
            /\ Return("search", "DecryptionError", <<>>)
       ELSE /\ items_cache' = load_items_if_needed.cache
            /\ fields_cache' = load_fields_if_needed.cache
            /\ labels_cache' = load_fields_if_needed.labels
            /\ IF load_fields_if_needed.ok
               THEN Return("search", "ok",
                           <<search_results(load_items_if_needed.cache[1],
                                            load_fields_if_needed.cache[1], query)>>)
               ELSE Return("search", "DecryptionError", <<>>)

-----------------------------------------------------------------------------
(* database/connection.rs: the transaction statements.  T is the open      *)
(* transaction (None: autocommit), tables the rows the connection sees.    *)

\* BEGIN TRANSACTION: from here on, writes are durable only once committed.
begin_transaction(tables) == Some(tables)

\* COMMIT: the connection's rows become the durable ones.
commit_transaction == None

\* ROLLBACK: the connection sees the durable rows again.
rollback_transaction(T) == T[1]

\* What a new connection finds after the process died with transaction T
\* open and the connection seeing tables.
after_crash(T, tables) == IF T = None THEN tables ELSE T[1]

-----------------------------------------------------------------------------
(* business/wallet.rs: change_password *)

RECURSIVE reencrypt_items(_, _, _, _)
\* for item in &items { update_item_name_only(encrypt(item.name, new_password)) }
reencrypt_items(I, todo, new_password, count) ==
    IF todo = {} THEN I
    ELSE LET item == CHOOSE i \in todo : TRUE
         IN reencrypt_items(
                update_item_name_only(I, item.item_id,
                                      encrypt(item.name, new_password, count)),
                todo \ {item}, new_password, count)

RECURSIVE reencrypt_fields(_, _, _, _)
\* for field in &fields { update_field_value_only(encrypt(field.value, new_password)) }
reencrypt_fields(F, todo, new_password, count) ==
    IF todo = {} THEN F
    ELSE LET field == CHOOSE f \in todo : TRUE
         IN reencrypt_fields(
                update_field_value_only(F, field.item_id, field.field_id,
                                        encrypt(field.value, new_password, count)),
                todo \ {field}, new_password, count)

\* change_password gets as far as BEGIN TRANSACTION: unlocked, both loads succeed.
reaches_begin ==
    /\ ensure_unlocked
    /\ load_items_if_needed.ok
    /\ load_fields_if_needed.ok

\* The progress the re-encryption loop can have made: some of the items, or
\* all of the items and some of the fields.
loop_progress ==
    IF ~reaches_begin THEN {}
    ELSE {<<di, df>> \in (SUBSET load_items_if_needed.cache[1])
                         \X (SUBSET load_fields_if_needed.cache[1]) :
             df # {} => di = load_items_if_needed.cache[1]}

\* The call with every statement succeeding, or failing before the loop on
\* the wallet's own state (locked, an undecryptable row, a transaction
\* already open).
change_password(new_password) ==
    /\ Ready
    /\ UNCHANGED <<labels, encryption_count>>
    /\ IF ~ensure_unlocked
       THEN /\ UNCHANGED <<items, fields, txn, password,
                           items_cache, fields_cache, labels_cache>>
            /\ Return("change_password", "Locked", <<>>)
       ELSE IF ~load_items_if_needed.ok
       THEN /\ UNCHANGED <<items, fields, txn, password,
                           items_cache, fields_cache, labels_cache>>
            /\ Return("change_password", "DecryptionError", <<>>)
       ELSE IF ~load_fields_if_needed.ok
       THEN /\ UNCHANGED <<items, fields, txn, password, fields_cache>>
            /\ items_cache' = load_items_if_needed.cache
            /\ labels_cache' = load_fields_if_needed.labels
            /\ Return("change_password", "DecryptionError", <<>>)
       ELSE IF txn # None
       THEN /\ UNCHANGED <<items, fields, txn, password>>
            /\ items_cache' = None
            /\ fields_cache' = None
            /\ labels_cache' = load_fields_if_needed.labels
            /\ Return("change_password", "DatabaseError", <<>>)
       ELSE /\ items' = reencrypt_items(items, load_items_if_needed.cache[1],
                                        new_password, encryption_count)
            /\ fields' = reencrypt_fields(fields, load_fields_if_needed.cache[1],
                                          new_password, encryption_count)
            /\ txn' = commit_transaction
            /\ password' = Some(new_password)
            /\ items_cache' = None /\ fields_cache' = None /\ labels_cache' = None
            /\ Returned("change_password", "ok", <<TRUE>>)
            /\ current_password' = new_password
            /\ wal_pending' = wal_pending_after("change_password", "ok", <<TRUE>>)

\* The call with one statement failing (disk full, I/O error, SQLITE_BUSY).
\*   begin            BEGIN fails
\*   write            a row write fails after progress; ROLLBACK succeeds
\*   rollback         a row write fails after progress; ROLLBACK fails too
\*   commit_open      COMMIT fails and leaves the transaction open
\*   commit_undone    COMMIT fails and SQLite rolls the transaction back
change_password_fails_at(new_password, step, progress) ==
    LET T == begin_transaction([items |-> items, fields |-> fields, labels |-> labels])
        I1 == reencrypt_items(items, progress[1], new_password, encryption_count)
        F1 == reencrypt_fields(fields, progress[2], new_password, encryption_count)
        Iall == reencrypt_items(items, load_items_if_needed.cache[1],
                                new_password, encryption_count)
        Fall == reencrypt_fields(fields, load_fields_if_needed.cache[1],
                                 new_password, encryption_count)
    IN /\ Ready
       /\ reaches_begin
       /\ txn = None
       /\ UNCHANGED <<labels, password, encryption_count>>
       /\ labels_cache' = load_fields_if_needed.labels
       /\ CASE step = "begin" ->
                 /\ UNCHANGED <<items, fields, txn>>
                 /\ items_cache' = None /\ fields_cache' = None
            [] step = "write" ->
                 /\ items' = IF T = None THEN I1 ELSE rollback_transaction(T).items
                 /\ fields' = IF T = None THEN F1 ELSE rollback_transaction(T).fields
                 /\ txn' = None
                 /\ items_cache' = load_items_if_needed.cache
                 /\ fields_cache' = load_fields_if_needed.cache
            [] step = "rollback" ->
                 /\ items' = I1
                 /\ fields' = F1
                 /\ txn' = T
                 /\ items_cache' = None /\ fields_cache' = None
            [] step = "commit_open" ->
                 /\ items' = Iall
                 /\ fields' = Fall
                 /\ txn' = T
                 /\ items_cache' = None /\ fields_cache' = None
            [] step = "commit_undone" ->
                 /\ items' = IF T = None THEN Iall ELSE rollback_transaction(T).items
                 /\ fields' = IF T = None THEN Fall ELSE rollback_transaction(T).fields
                 /\ txn' = None
                 /\ items_cache' = None /\ fields_cache' = None
       /\ Return("change_password", "DatabaseError", <<>>)

change_password_fails(new_password, step) ==
    /\ Ready
    /\ \E progress \in loop_progress : change_password_fails_at(new_password, step, progress)

\* The process dies inside the call, after progress, and the wallet is
\* opened again.  ret keeps the password the call ran under.
change_password_aborted_at(new_password, progress) ==
    LET T == begin_transaction([items |-> items, fields |-> fields, labels |-> labels])
        seen == [items |-> reencrypt_items(items, progress[1], new_password,
                                           encryption_count),
                 fields |-> reencrypt_fields(fields, progress[2], new_password,
                                             encryption_count),
                 labels |-> labels]
    IN /\ Ready
       /\ reaches_begin
       /\ txn = None
       /\ items' = after_crash(T, seen).items
       /\ fields' = after_crash(T, seen).fields
       /\ labels' = after_crash(T, seen).labels
       /\ txn' = None
       /\ password' = None
       /\ encryption_count' = ENCRYPTION_COUNT_DEFAULT
       /\ items_cache' = None /\ fields_cache' = None /\ labels_cache' = None
       /\ Return("change_password", "aborted", password)

change_password_aborted(new_password) ==
    /\ Ready
    /\ \E progress \in loop_progress : change_password_aborted_at(new_password, progress)

-----------------------------------------------------------------------------
(* Wallet::compact *)

compact ==
    /\ Ready
    /\ UNCHANGED <<txn, password, encryption_count>>
    /\ IF ~ensure_unlocked
       THEN /\ UNCHANGED <<store, items_cache, fields_cache, labels_cache>>
            /\ Return("compact", "Locked", <<>>)
       ELSE /\ items' = purge_deleted(items, fields, labels).items
            /\ fields' = purge_deleted(items, fields, labels).fields
            /\ labels' = purge_deleted(items, fields, labels).labels
            /\ items_cache' = None /\ fields_cache' = None /\ labels_cache' = None
            /\ Return("compact", "ok", <<purge_deleted(items, fields, labels).items_count,
                                         purge_deleted(items, fields, labels).fields_count>>)

-----------------------------------------------------------------------------
(* utils/id_gen.rs: the ids a generator call may return.  Ids are random   *)
(* and unchecked: an id already in use, or the first unused one of the     *)
(* pool.                                                                   *)

generate_item_id ==
    {id \in ItemIdPool :
        \/ id \in DOMAIN items
        \/ \E n \in 1..MaxItems :
               /\ id = ItemIdNames[n]
               /\ \A m \in 1..(n - 1) : ItemIdNames[m] \in DOMAIN items}

generate_field_id ==
    {id \in FieldIdPool :
        \/ \E k \in DOMAIN fields : k[2] = id
        \/ \E n \in 1..MaxFields :
               /\ id = FieldIdNames[n]
               /\ \A m \in 1..(n - 1) : \E k \in DOMAIN fields : k[2] = FieldIdNames[m]}

generate_label_id == {"L001"}

-----------------------------------------------------------------------------
(* backup/mod.rs: the backup folder.  A file name is a sequence of pieces  *)
(* of text, "-" being the piece that split('-') cuts at; an instant is a   *)
(* number of seconds, a day having 86400 of them.                          *)

BACKUP_PREFIX == "iwb"
BACKUP_PREFIX_LEGACY == "nswb"
BACKUP_AUTO == "auto"
BACKUP_MANUAL == "manual"
BACKUP_IMPORTED == "imported"

\* The dates and times of day that file names and the clock use: the n-th
\* date is day n, the n-th time of day is second n - 1 after noon.
DateText == <<"20240101", "20240102", "20240103">>
TimeText == <<"120000", "120001">>

\* str::len of a piece of text.
str_len(piece) ==
    CASE piece \in {"-"} -> 1
      [] piece \in {"iwb", "old", "pre"} -> 3
      [] piece \in {"nswb", "iwbx", "auto", ".zip", ".txt"} -> 4
      [] piece \in {"notes"} -> 5
      [] piece \in {"manual", "120000", "120001"} -> 6
      [] piece \in {"2024011", "upgrade"} -> 7
      [] OTHER -> 8

RECURSIVE text_len(_)
text_len(s) == IF s = <<>> THEN 0 ELSE str_len(Head(s)) + text_len(Tail(s))

\* str::starts_with on a file name: the first piece is the prefix or goes on
\* after it.
starts_with(filename, prefix) ==
    /\ filename # <<>>
    /\ \/ filename[1] = prefix
       \/ prefix = "iwb" /\ filename[1] = "iwbx"

ends_with(filename, suffix) == filename # <<>> /\ filename[Len(filename)] = suffix

RECURSIVE split(_)
\* str::split('-'): the parts between the dashes.
split(s) ==
    IF \A n \in DOMAIN s : s[n] # "-" THEN <<s>>
    ELSE LET n == CHOOSE m \in DOMAIN s : s[m] = "-" /\ \A j \in 1..(m - 1) : s[j] # "-"
         IN <<SubSeq(s, 1, n - 1)>> \o split(SubSeq(s, n + 1, Len(s)))

RECURSIVE trim_end_matches(_, _)
trim_end_matches(s, suffix) ==
    IF s # <<>> /\ s[Len(s)] = suffix
    THEN trim_end_matches(SubSeq(s, 1, Len(s) - 1), suffix)
    ELSE s

\* NaiveDateTime::parse_from_str with BACKUP_DATE_FORMAT on "date-time":
\* None unless both are a calendar date and a time of day.
parse_from_str(date_str, time_str) ==
    IF /\ \E d \in DOMAIN DateText : date_str = <<DateText[d]>>
       /\ \E t \in DOMAIN TimeText : time_str = <<TimeText[t]>>
    THEN Some((CHOOSE d \in DOMAIN DateText : date_str = <<DateText[d]>>) * 86400
              + (CHOOSE t \in DOMAIN TimeText : time_str = <<TimeText[t]>>) - 1)
    ELSE None

\* now.format(BACKUP_DATE_FORMAT), as the two pieces around the dash.
format_date(now) == DateText[now \div 86400]

format_time(now) == TimeText[(now % 86400) + 1]

\* The BackupType of the suffix left of ".zip".
backup_type_of(type_str) ==
    IF type_str = <<BACKUP_MANUAL>> THEN "Manual"
    ELSE IF type_str = <<BACKUP_IMPORTED>> THEN "Imported"
    ELSE "Auto"

\* parse_backup_filename: Some(BackupInfo) or None.
parse_backup_filename(filename) ==
    LET parts == split(filename)
    IN IF Len(parts) # 4 THEN None
       ELSE IF parts[1] # <<BACKUP_PREFIX>> /\ parts[1] # <<BACKUP_PREFIX_LEGACY>> THEN None
       ELSE IF text_len(parts[2]) # 8 \/ text_len(parts[3]) # 6 THEN None
       ELSE IF parse_from_str(parts[2], parts[3]) = None THEN None
       ELSE Some([path |-> filename,
                  timestamp |-> parse_from_str(parts[2], parts[3])[1],
                  backup_type |-> backup_type_of(trim_end_matches(parts[4], ".zip"))])

\* A faulty list_backups: the name need not end in ".zip".
collect_backups_of_any_extension(folder) ==
    {parse_backup_filename(f)[1] :
        f \in {g \in folder :
                  /\ starts_with(g, BACKUP_PREFIX) \/ starts_with(g, BACKUP_PREFIX_LEGACY)
                  /\ parse_backup_filename(g) # None}}

\* The entries list_backups collects while it reads the folder.
collect_backups(folder) ==
    {parse_backup_filename(f)[1] :
        f \in {g \in folder :
                  /\ starts_with(g, BACKUP_PREFIX) \/ starts_with(g, BACKUP_PREFIX_LEGACY)
                  /\ ends_with(g, ".zip")
                  /\ parse_backup_filename(g) # None}}

RECURSIVE sort_by_timestamp(_)
\* backups.sort_by(|a, b| b.timestamp.cmp(&a.timestamp)): the orders the
\* stable sort may produce, read_dir giving the entries in any order.
sort_by_timestamp(S) ==
    IF S = {} THEN {<<>>}
    ELSE UNION {{<<b>> \o t : t \in sort_by_timestamp(S \ {b})} :
                   b \in {x \in S : \A y \in S : x.timestamp >= y.timestamp}}

\* The vectors list_backups may return for the folder.
list_backups_of(folder) == sort_by_timestamp(collect_backups(folder))

\* Database::checkpoint: PRAGMA wal_checkpoint(TRUNCATE) leaves no write
\* pending.
checkpoint == FALSE

\* The call returns: the wallet is not involved.
BackupReturn(op, res, ret) ==
    /\ last' = [op |-> op, res |-> res, ret |-> ret]
    /\ nops' = nops - 1
    /\ UNCHANGED <<store, txn, wallet, properties, current_password>>
    /\ wal_pending' = IF op = "create_backup" THEN checkpoint ELSE wal_pending

list_backups ==
    /\ Ready
    /\ UNCHANGED <<backup_folder, db_version>>
    /\ \E backups \in list_backups_of(backup_folder) :
           BackupReturn("list_backups", "ok", <<backups>>)

\* A faulty skip: the oldest keep_count entries are kept instead.
old_backups_from_newest(backups, keep_count) ==
    IF Len(backups) <= keep_count THEN <<>>
    ELSE SubSeq(backups, 1, Len(backups) - keep_count)

\* The entries cleanup_old_backups removes: backups.iter().skip(keep_count).
old_backups(backups, keep_count) ==
    IF Len(backups) <= keep_count THEN <<>>
    ELSE SubSeq(backups, keep_count + 1, Len(backups))

\* The files of the first n entries of a vector.
paths(backups, n) == {backups[j].path : j \in 1..n}

\* remove_file on each entry of todo in turn; the removed-th + 1 call fails
\* when removed < Len(todo).
remove_files(op, todo, removed) ==
    /\ backup_folder' = backup_folder \ paths(todo, removed)
    /\ UNCHANGED db_version
    /\ IF removed = Len(todo)
       THEN BackupReturn(op, "ok", <<removed>>)
       ELSE BackupReturn(op, "IoError", <<>>)

cleanup_old_backups(keep_count) ==
    /\ Ready
    /\ \E backups \in list_backups_of(backup_folder) :
           \E removed \in 0..Len(old_backups(backups, keep_count)) :
               remove_files("cleanup_old_backups", old_backups(backups, keep_count), removed)

\* A faulty filter: backups of every type are taken for auto backups.
auto_backups_of_any_type(backups) == backups

\* backups.iter().filter(|b| b.backup_type == BackupType::Auto)
auto_backups(backups) == SelectSeq(backups, LAMBDA b : b.backup_type = "Auto")

\* The entries cleanup_auto_backups removes: past the first min_keep auto
\* backups, those older than the cutoff.
expired_backups(backups, min_keep, cutoff) ==
    IF Len(auto_backups(backups)) <= min_keep THEN <<>>
    ELSE SelectSeq(SubSeq(auto_backups(backups), min_keep + 1, Len(auto_backups(backups))),
                   LAMBDA b : b.timestamp < cutoff)

cleanup_auto_backups(min_keep, max_age_days, now) ==
    /\ Ready
    /\ \E backups \in list_backups_of(backup_folder) :
           \E removed \in 0..Len(expired_backups(backups, min_keep,
                                                 now - max_age_days * 86400)) :
               remove_files("cleanup_auto_backups",
                            expired_backups(backups, min_keep, now - max_age_days * 86400),
                            removed)

\* The file name create_backup and create_backup_from_path compute.
backup_filename(manual, now) ==
    <<BACKUP_PREFIX, "-", format_date(now), "-", format_time(now), "-",
      IF manual THEN BACKUP_MANUAL ELSE BACKUP_AUTO, ".zip">>

\* BackupManager::create_backup: File::create makes the file or truncates
\* the one of that name.
create_backup(manual, now) ==
    /\ Ready
    /\ backup_folder' = backup_folder \cup {backup_filename(manual, now)}
    /\ UNCHANGED db_version
    /\ BackupReturn("create_backup", "ok", <<backup_filename(manual, now)>>)

\* backup::create_backup_from_path on a closed database file: no checkpoint;
\* a missing source file is the one error before the archive is written.
create_backup_from_path(db_path_exists, manual, now) ==
    /\ Ready
    /\ UNCHANGED db_version
    /\ IF ~db_path_exists
       THEN /\ UNCHANGED backup_folder
            /\ BackupReturn("create_backup_from_path", "BackupError", <<>>)
       ELSE /\ backup_folder' = backup_folder \cup {backup_filename(manual, now)}
            /\ BackupReturn("create_backup_from_path", "ok",
                            <<backup_filename(manual, now)>>)

-----------------------------------------------------------------------------
(* database/migrations.rs, backup/restore.rs: the version probes.  A       *)
(* version is text, one character per element; a parsed u32 is kept as its *)
(* decimal digits without leading zeros.                                   *)

DB_VERSION == <<"4">>
CURRENT_VERSION == <<"5">>

Digits == <<"0", "1", "2", "3", "4", "5", "6", "7", "8", "9">>

digit_value(c) == (CHOOSE n \in DOMAIN Digits : Digits[n] = c) - 1

U32_MAX == <<"4", "2", "9", "4", "9", "6", "7", "2", "9", "5">>

RECURSIVE strip_zeros(_)
strip_zeros(s) ==
    IF Len(s) > 1 /\ Head(s) = "0" THEN strip_zeros(Tail(s)) ELSE s

RECURSIVE digits_le(_, _)
\* a <= b for two digit sequences of the same length.
digits_le(a, b) ==
    IF a = <<>> THEN TRUE
    ELSE IF digit_value(Head(a)) < digit_value(Head(b)) THEN TRUE
    ELSE IF digit_value(Head(a)) > digit_value(Head(b)) THEN FALSE
    ELSE digits_le(Tail(a), Tail(b))

\* a <= b for two parsed numbers.
u32_le(a, b) == Len(a) < Len(b) \/ (Len(a) = Len(b) /\ digits_le(a, b))

\* str::parse::<u32>: an optional "+", then decimal digits that fit 32 bits.
parse_u32(s) ==
    LET body == IF s # <<>> /\ Head(s) = "+" THEN Tail(s) ELSE s
    IN IF body = <<>> THEN None
       ELSE IF \E n \in DOMAIN body : \A d \in DOMAIN Digits : body[n] # Digits[d] THEN None
       ELSE IF ~u32_le(strip_zeros(body), U32_MAX) THEN None
       ELSE Some(strip_zeros(body))

unwrap_or(opt, default) == IF opt = None THEN default ELSE opt[1]

\* get_database_version, get_db_version, get_backup_db_version: the stored
\* text, or "1" when the row cannot be read.
get_db_version == unwrap_or(db_version, <<"1">>)

\* migrations::is_version_compatible(version)
is_version_compatible_result(version) ==
    u32_le(unwrap_or(parse_u32(version), <<"0">>),
           unwrap_or(parse_u32(CURRENT_VERSION), <<"4">>))

\* restore::is_backup_compatible(backup_path, current_version)
is_backup_compatible_result(current_version) ==
    u32_le(unwrap_or(parse_u32(get_db_version), <<"1">>),
           unwrap_or(parse_u32(current_version), <<"4">>))

\* restore::check_db_version(db_path)
check_db_version_result ==
    u32_le(unwrap_or(parse_u32(get_db_version), <<"1">>),
           unwrap_or(parse_u32(DB_VERSION), <<"4">>))

is_version_compatible ==
    /\ Ready
    /\ UNCHANGED <<backup_folder, db_version>>
    /\ BackupReturn("is_version_compatible", "ok",
                    <<is_version_compatible_result(get_db_version)>>)

is_backup_compatible(current_version) ==
    /\ Ready
    /\ UNCHANGED <<backup_folder, db_version>>
    /\ BackupReturn("is_backup_compatible", "ok",
                    <<is_backup_compatible_result(current_version)>>)

check_db_version ==
    /\ Ready
    /\ UNCHANGED <<backup_folder, db_version>>
    /\ BackupReturn("check_db_version", "ok", <<check_db_version_result>>)

-----------------------------------------------------------------------------
(* crypto/aes.rs as called directly *)

\* The call returns: no wallet, folder or database file is involved.
CryptoReturn(op, res, ret) ==
    /\ last' = [op |-> op, res |-> res, ret |-> ret]
    /\ nops' = nops - 1
    /\ UNCHANGED <<store, txn, wallet, backup_folder, db_version, properties,
                   current_password, wal_pending>>

\* crypto::encrypt(plaintext, password, re_encryption_count, None)
call_encrypt(plaintext, pw, count) ==
    /\ Ready
    /\ IF ~pad_loop_ends(pw) THEN CryptoReturn("encrypt", "hang", <<>>)
       ELSE CryptoReturn("encrypt", "ok", <<encrypt(plaintext, pw, count)>>)

\* crypto::decrypt(ciphertext, password, re_encryption_count, None) on the
\* ciphertext that encrypt has just returned.
call_decrypt(pw, count) ==
    /\ Ready
    /\ last.op = "encrypt"
    /\ last.res = "ok"
    /\ IF ~pad_loop_ends(pw) THEN CryptoReturn("decrypt", "hang", <<>>)
       ELSE IF decrypt(last.ret[1], pw, count) = None
       THEN CryptoReturn("decrypt", "Err", <<>>)
       ELSE CryptoReturn("decrypt", "ok", decrypt(last.ret[1], pw, count))

-----------------------------------------------------------------------------
(* business/wallet.rs, database/queries.rs: the properties row *)

\* u32::to_string, for the counts below 1000.
to_string(n) ==
    IF n < 10 THEN <<Digits[n + 1]>>
    ELSE IF n < 100 THEN <<Digits[(n \div 10) + 1], Digits[(n % 10) + 1]>>
    ELSE <<Digits[(n \div 100) + 1], Digits[((n \div 10) % 10) + 1], Digits[(n % 10) + 1]>>

\* Uuid::new_v4().to_string().replace("-", ""): to_string gives 8-4-4-4-12
\* hexadecimal digits (here all the same one), replace drops the dashes.
generate_database_id ==
    LET to_string_of(hex) == [n \in 1..36 |-> IF n \in {9, 14, 19, 24} THEN "-" ELSE hex]
        replace(t, from) == SelectSeq(t, LAMBDA c : c # from)
    IN {replace(to_string_of(hex), "-") : hex \in {"0", "a", "f"}}

\* INSERT INTO nswallet_properties (database_id, lang, version, email, ...)
set_properties(database_id, lang, version, count) ==
    /\ properties = [database_id |-> database_id, lang |-> lang, email |-> to_string(count)]
    /\ db_version = Some(version)

\* Wallet::create(folder, password, lang).  The properties row is written
\* first; encrypting the root name needs the key, and the call does not
\* return when the key derivation does not.
wallet_create(pw, lang, database_id, budget) ==
    /\ set_properties(database_id, lang, DB_VERSION, 0)
    /\ IF pad_loop_ends(pw)
       THEN /\ init_new_database(pw)
            /\ last = [op |-> "create", res |-> "ok", ret |-> <<pw, lang>>]
       ELSE /\ items = <<>> /\ fields = <<>> /\ labels = <<>>
            /\ last = [op |-> "create", res |-> "hang", ret |-> <<pw, lang>>]
    /\ txn = None
    /\ password = Some(pw)
    /\ current_password = pw
    /\ wal_pending = FALSE
    /\ encryption_count = 0
    /\ items_cache = None
    /\ fields_cache = None
    /\ labels_cache = None
    /\ nops = budget

\* Wallet::get_properties
get_properties ==
    /\ Ready
    /\ UNCHANGED <<store, txn, wallet>>
    /\ IF db_version = None THEN Return("get_properties", "DatabaseError", <<>>)
       ELSE Return("get_properties", "ok",
                   <<[database_id |-> properties.database_id,
                      lang |-> properties.lang,
                      version |-> db_version[1],
                      encryption_count |->
                          unwrap_or(parse_u32(properties.email),
                                    to_string(ENCRYPTION_COUNT_DEFAULT))]>>)

-----------------------------------------------------------------------------
(* The inputs of the calls *)

Icons == {"document"}
FieldTypes == {"PASS", "OLDP", "NOTE"}
Weights == {None, Some(50)}
Parents == {None} \cup {Some(x) : x \in AnyItemId}
Queries == {<<"a", "b">>, <<"A", "B", "c">>}
CopyFieldIds == {[f \in FieldIdPool |-> f], [f \in FieldIdPool |-> FieldIdNames[1]]}
Steps == {"begin", "write", "rollback", "commit_open", "commit_undone"}

-----------------------------------------------------------------------------
(* The wallet under every call *)

Init ==
    /\ create(<<97>>, MaxOps)
    /\ backup_folder = {}
    /\ set_properties(CHOOSE id \in generate_database_id : TRUE, "en", DB_VERSION, 0)

Next ==
    \/ \E pw \in PwPool : unlock(pw)
    \/ lock
    \/ \E pw \in PwPool : check_password(pw)
    \/ reopen
    \/ get_items
    \/ \E id \in AnyItemId : get_item(id)
    \/ \E name \in Plaintexts, icon \in Icons, folder \in BOOLEAN, parent \in Parents,
          id \in generate_item_id : add_item(name, icon, folder, parent, id)
    \/ \E id \in AnyItemId, name \in Plaintexts : update_item_name(id, name)
    \/ \E id \in AnyItemId, icon \in Icons : update_item_icon(id, icon)
    \/ \E id \in AnyItemId, parent \in AnyItemId : move_item(id, parent)
    \/ \E id \in AnyItemId : delete_item(id)
    \/ get_deleted_items
    \/ \E id \in AnyItemId : undelete_item(id)
    \/ \E id \in AnyItemId, new \in generate_item_id, fids \in CopyFieldIds :
          copy_item(id, new, fids)
    \/ get_fields
    \/ \E id \in AnyItemId : get_fields_by_item(id)
    \/ \E id \in AnyItemId, t \in FieldTypes, v \in Plaintexts, w \in Weights,
          fid \in generate_field_id : add_field(id, t, v, w, fid)
    \/ \E fid \in FieldIdPool, v \in Plaintexts, w \in Weights, new \in generate_field_id :
          update_field(fid, v, w, new)
    \/ \E id \in AnyItemId, fid \in FieldIdPool : delete_field(id, fid)
    \/ get_deleted_fields
    \/ \E id \in AnyItemId, fid \in FieldIdPool : undelete_field(id, fid)
    \/ \E src \in AnyItemId, fid \in FieldIdPool, dst \in AnyItemId,
          new \in generate_field_id : copy_field(src, fid, dst, new)
    \/ \E src \in AnyItemId, fid \in FieldIdPool, dst \in AnyItemId,
          new \in generate_field_id : move_field(src, fid, dst, new)
    \/ get_labels
    \/ \E name \in {"Custom"}, icon \in Icons, id \in generate_label_id :
          add_label(name, icon, "text", id)
    \/ \E t \in {"NOTE", "L001"} : update_label_name(t, "Renamed")
    \/ \E t \in {"NOTE", "L001"} : update_label_icon(t, "star")
    \/ \E t \in {"NOTE", "L001"} : delete_label(t)
    \/ \E q \in Queries : search(q)
    \/ \E pw \in PwPool : change_password(pw)
    \/ \E pw \in PwPool, step \in Steps : change_password_fails(pw, step)
    \/ \E pw \in PwPool : change_password_aborted(pw)
    \/ compact

Spec == Init /\ [][Next]_vars

-----------------------------------------------------------------------------
(* The wallet under password changes: one item with one field, deletes,    *)
(* lock / unlock / reopen, and change_password with its failures.          *)

PwItems == {ItemIdNames[1]}
PwName == <<"a", "b", "c">>
PwValue == <<"A", "b", "d">>

InitPw ==
    /\ create(<<97>>, MaxPwOps)
    /\ backup_folder = {}
    /\ set_properties(CHOOSE id \in generate_database_id : TRUE, "en", DB_VERSION, 0)

NextPw ==
    \/ \E id \in generate_item_id \cap PwItems : add_item(PwName, "document", FALSE, None, id)
    \/ \E id \in PwItems : add_field(id, "PASS", PwValue, None, FieldIdNames[1])
    \/ \E id \in {ROOT_ID} \cup PwItems : delete_item(id)
    \/ get_items
    \/ lock
    \/ \E pw \in PwPool : unlock(pw)
    \/ reopen
    \/ \E pw \in PwPool : change_password(pw)
    \/ \E pw \in PwPool, step \in Steps : change_password_fails(pw, step)
    \/ \E pw \in PwPool : change_password_aborted(pw)

SpecPw == InitPw /\ [][NextPw]_vars

-----------------------------------------------------------------------------
(* The wallet under field versioning: PASS and OLDP fields on two items.   *)

FieldItems == {ROOT_ID, ItemIdNames[1]}
FieldKeys == FieldItems \X FieldIdPool

InitField ==
    /\ create(<<97>>, MaxFieldOps)
    /\ backup_folder = {}
    /\ set_properties(CHOOSE id \in generate_database_id : TRUE, "en", DB_VERSION, 0)

NextField ==
    \/ \E id \in FieldItems, t \in {"PASS", "OLDP"}, v \in Plaintexts,
          fid \in generate_field_id : add_field(id, t, v, None, fid)
    \/ \E fid \in FieldIdPool, w \in Weights, new \in generate_field_id :
          update_field(fid, PwValue, w, new)
    \/ \E k \in FieldKeys \cap DOMAIN fields : delete_field(k[1], k[2])
    \/ get_fields

SpecField == InitField /\ [][NextField]_vars

-----------------------------------------------------------------------------
(* The wallet under hierarchy changes: folders and items nested, moved,    *)
(* deleted and undeleted.                                                  *)

TreeParents == {None} \cup {Some(x) : x \in ItemIdPool \cap DOMAIN items}

InitTree ==
    /\ create(<<97>>, MaxTreeOps)
    /\ backup_folder = {}
    /\ set_properties(CHOOSE id \in generate_database_id : TRUE, "en", DB_VERSION, 0)

NextTree ==
    \/ \E folder \in BOOLEAN, parent \in TreeParents,
          id \in generate_item_id \ DOMAIN items :
          add_item(PwName, "document", folder, parent, id)
    \/ \E id \in ItemIdPool \cap DOMAIN items, parent \in DOMAIN items : move_item(id, parent)
    \/ \E id \in DOMAIN items : delete_item(id)
    \/ \E id \in DOMAIN items : undelete_item(id)
    \/ \E id \in ItemIdPool \cap DOMAIN items :
          add_field(id, "NOTE", PwValue, None, FieldIdNames[1])
    \/ get_deleted_items

SpecTree == InitTree /\ [][NextTree]_vars

-----------------------------------------------------------------------------
(* The wallet under reads and writes that fill and drop the caches: notes  *)
(* on the root item, label edits, lock and unlock.                         *)

MaxCacheOps == 4

InitCache ==
    /\ create(<<97>>, MaxCacheOps)
    /\ backup_folder = {}
    /\ set_properties(CHOOSE id \in generate_database_id : TRUE, "en", DB_VERSION, 0)

NextCache ==
    \/ \E fid \in generate_field_id : add_field(ROOT_ID, "NOTE", PwValue, None, fid)
    \/ \E fid \in FieldIdPool, new \in generate_field_id : update_field(fid, PwName, None, new)
    \/ \E k \in FieldKeys \cap DOMAIN fields : delete_field(k[1], k[2])
    \/ \E id \in generate_item_id \cap PwItems : add_item(PwName, "document", FALSE, None, id)
    \/ get_items
    \/ get_fields
    \/ get_labels
    \/ \E id \in generate_label_id : add_label("Custom", "document", "text", id)
    \/ update_label_name("NOTE", "Renamed")
    \/ update_label_icon("NOTE", "star")
    \/ delete_label("NOTE")
    \/ lock
    \/ unlock(<<97>>)

SpecCache == InitCache /\ [][NextCache]_vars

-----------------------------------------------------------------------------
(* The wallet under row writes and password changes: fields versioned and  *)
(* deleted, rows purged, the password changed with and without a failing   *)
(* statement, the wallet closed and opened again.                          *)

MaxStoreOps == 4

InitStore ==
    /\ create(<<97>>, MaxStoreOps)
    /\ backup_folder = {}
    /\ set_properties(CHOOSE id \in generate_database_id : TRUE, "en", DB_VERSION, 0)

NextStore ==
    \/ \E id \in generate_item_id \cap PwItems : add_item(PwName, "document", FALSE, None, id)
    \/ \E id \in FieldItems, fid \in generate_field_id : add_field(id, "PASS", PwValue, None, fid)
    \/ \E fid \in FieldIdPool, new \in generate_field_id : update_field(fid, PwName, None, new)
    \/ \E k \in FieldKeys \cap DOMAIN fields : delete_field(k[1], k[2])
    \/ \E id \in PwItems : delete_item(id)
    \/ get_fields
    \/ get_deleted_items
    \/ get_deleted_fields
    \/ change_password(<<98>>)
    \/ \E step \in Steps : change_password_fails(<<98>>, step)
    \/ compact
    \/ reopen
    \/ \E pw \in {<<97>>, <<98>>} : unlock(pw)

SpecStore == InitStore /\ [][NextStore]_vars

-----------------------------------------------------------------------------
(* The wallet under compaction: items and notes added, soft-deleted and    *)
(* restored, and the deleted pool purged.                                  *)

MaxCompactOps == 5

InitCompact ==
    /\ create(<<97>>, MaxCompactOps)
    /\ backup_folder = {}
    /\ set_properties(CHOOSE id \in generate_database_id : TRUE, "en", DB_VERSION, 0)

NextCompact ==
    \/ \E folder \in BOOLEAN, parent \in TreeParents,
          id \in generate_item_id \ DOMAIN items :
          add_item(PwName, "document", folder, parent, id)
    \/ \E id \in ItemIdPool \cap DOMAIN items,
          fid \in generate_field_id \ {k[2] : k \in DOMAIN fields} :
          add_field(id, "NOTE", PwValue, None, fid)
    \/ \E id \in DOMAIN items : delete_item(id)
    \/ \E k \in DOMAIN fields : delete_field(k[1], k[2])
    \/ \E k \in DOMAIN fields : undelete_field(k[1], k[2])
    \/ \E t \in {"NOTE", "MAIL"} : delete_label(t)
    \/ compact

SpecCompact == InitCompact /\ [][NextCompact]_vars

-----------------------------------------------------------------------------
(* The wallet under search: items and folders with two names, password     *)
(* fields with two values, edits and deletions, and queries of three       *)
(* characters in either case.                                              *)

MaxSearchOps == 5

SearchQueries == {<<"A", "B", "c">>, <<"a", "b", "d">>}

InitSearch ==
    /\ create(<<97>>, MaxSearchOps)
    /\ backup_folder = {}
    /\ set_properties(CHOOSE id \in generate_database_id : TRUE, "en", DB_VERSION, 0)

NextSearch ==
    \/ \E name \in Plaintexts, folder \in BOOLEAN,
          id \in generate_item_id \ DOMAIN items :
          add_item(name, "document", folder, None, id)
    \/ \E id \in ItemIdPool \cap DOMAIN items, value \in Plaintexts,
          fid \in generate_field_id \ {k[2] : k \in DOMAIN fields} :
          add_field(id, "PASS", value, None, fid)
    \/ \E k \in DOMAIN fields, new \in generate_field_id :
          update_field(k[2], PwName, None, new)
    \/ \E k \in DOMAIN fields : delete_field(k[1], k[2])
    \/ \E id \in ItemIdPool \cap DOMAIN items : delete_item(id)
    \/ \E q \in SearchQueries : search(q)

SpecSearch == InitSearch /\ [][NextSearch]_vars

-----------------------------------------------------------------------------
(* The backup manager over a folder that already holds some files: backups *)
(* of the three types under both prefixes, two of them of the same second, *)
(* and files that are no backups.                                          *)

MaxBackupOps == 2
MaxBackupFiles == 2

BackupFileNames ==
    {<<"iwb", "-", "20240101", "-", "120000", "-", "auto", ".zip">>,
     <<"iwb", "-", "20240101", "-", "120000", "-", "manual", ".zip">>,
     <<"iwb", "-", "20240101", "-", "120001", "-", "auto", ".zip">>,
     <<"nswb", "-", "20240102", "-", "120000", "-", "auto", ".zip">>,
     <<"iwb", "-", "20240102", "-", "120001", "-", "imported", ".zip">>,
     <<"iwb", "-", "20240102", "-", "120000", "-", "old", ".zip">>,
     <<"iwb", "-", "20241301", "-", "120000", "-", "auto", ".zip">>,
     <<"iwb", "-", "2024011", "-", "120000", "-", "auto", ".zip">>,
     <<"iwb", "-", "20240103", "-", "120000", "-", "pre", "-", "upgrade", ".zip">>,
     <<"iwbx", "-", "20240103", "-", "120000", "-", "auto", ".zip">>,
     <<"iwb", "-", "20240103", "-", "120000", "-", "auto", ".txt">>,
     <<"notes", ".txt">>}

\* The readings of the clock.
Nows == {2 * 86400 + 1, 3 * 86400}

KeepCounts == 0..2
MaxAgeDays == 0..1

InitBackup ==
    /\ create(<<97>>, MaxBackupOps)
    /\ backup_folder \in {S \in SUBSET BackupFileNames : Cardinality(S) <= MaxBackupFiles}
    /\ set_properties(CHOOSE id \in generate_database_id : TRUE, "en", DB_VERSION, 0)

NextBackup ==
    \/ list_backups
    \/ \E keep_count \in KeepCounts : cleanup_old_backups(keep_count)
    \/ \E min_keep \in KeepCounts, max_age_days \in MaxAgeDays, now \in Nows :
          cleanup_auto_backups(min_keep, max_age_days, now)
    \/ \E manual \in BOOLEAN, now \in Nows : create_backup(manual, now)
    \/ \E db_path_exists \in BOOLEAN, manual \in BOOLEAN, now \in Nows :
          create_backup_from_path(db_path_exists, manual, now)

SpecBackup == InitBackup /\ [][NextBackup]_vars

-----------------------------------------------------------------------------
(* The version probes over database files written by any release: every    *)
(* version of one or two digits, a few longer ones, text that is no        *)
(* number, and a file whose properties row cannot be read.                 *)

MaxVersionOps == 2

StoredVersions ==
    {None}
    \cup {Some(<<Digits[a]>>) : a \in DOMAIN Digits}
    \cup {Some(<<Digits[a], Digits[b]>>) : a, b \in DOMAIN Digits}
    \cup {Some(<<"9", "9", "9">>), Some(U32_MAX),
          Some(<<"4", "2", "9", "4", "9", "6", "7", "2", "9", "6">>),
          Some(<<"+", "3">>), Some(<<"v", "5">>), Some(<<>>)}

InitVersion ==
    /\ create(<<97>>, MaxVersionOps)
    /\ backup_folder = {}
    /\ db_version \in StoredVersions
    /\ properties = [database_id |-> CHOOSE id \in generate_database_id : TRUE,
                     lang |-> "en", email |-> to_string(0)]

NextVersion ==
    \/ is_version_compatible
    \/ \E current_version \in {CURRENT_VERSION, DB_VERSION} :
          is_backup_compatible(current_version)
    \/ check_db_version

SpecVersion == InitVersion /\ [][NextVersion]_vars

-----------------------------------------------------------------------------
(* encrypt and decrypt over plaintexts, passwords and counts, the empty    *)
(* plaintext and the empty password among them.                            *)

MaxCryptoOps == 2

CryptoPlaintexts == Plaintexts \cup {<<>>, <<"d">>}
CryptoPasswords == PwPool \cup {<<>>, <<98, 97>>}
CryptoCounts == {0, 1, 2, ENCRYPTION_COUNT_DEFAULT}

InitCrypto ==
    /\ create(<<97>>, MaxCryptoOps)
    /\ backup_folder = {}
    /\ set_properties(CHOOSE id \in generate_database_id : TRUE, "en", DB_VERSION, 0)

NextCrypto ==
    \/ \E plaintext \in CryptoPlaintexts, pw \in CryptoPasswords, count \in CryptoCounts :
          call_encrypt(plaintext, pw, count)
    \/ \E pw \in CryptoPasswords, count \in CryptoCounts : call_decrypt(pw, count)

SpecCrypto == InitCrypto /\ [][NextCrypto]_vars

-----------------------------------------------------------------------------
(* Wallet::create over passwords (the empty one among them), languages and *)
(* database ids, followed by the calls that derive a key or read the       *)
(* properties.                                                             *)

MaxCreateOps == 3

Langs == {"en", "ru", "de"}

InitCreate ==
    /\ backup_folder = {}
    /\ \E pw \in CryptoPasswords, lang \in Langs, database_id \in generate_database_id :
           wallet_create(pw, lang, database_id, MaxCreateOps)

NextCreate ==
    \/ get_properties
    \/ \E pw \in CryptoPasswords : unlock(pw)
    \/ lock
    \/ \E pw \in CryptoPasswords : check_password(pw)
    \/ reopen
    \/ \E pw \in {<<97>>, <<>>} : call_encrypt(PwName, pw, StoredEncryptionCount)
    \/ \E pw \in {<<97>>, <<>>} : call_decrypt(pw, StoredEncryptionCount)

SpecCreate == InitCreate /\ [][NextCreate]_vars

-----------------------------------------------------------------------------
(* Active reads followed by compact: items and fields are added, deleted   *)
(* and restored, read, and the deleted pool is purged.                     *)

MaxSweepOps == 5

InitSweep ==
    /\ create(<<97>>, MaxSweepOps)
    /\ backup_folder = {}
    /\ set_properties(CHOOSE id \in generate_database_id : TRUE, "en", DB_VERSION, 0)

NextSweep ==
    \/ \E folder \in BOOLEAN, id \in generate_item_id \ DOMAIN items :
          add_item(PwName, "document", folder, None, id)
    \/ \E id \in ItemIdPool \cap DOMAIN items,
          fid \in generate_field_id \ {k[2] : k \in DOMAIN fields} :
          add_field(id, "NOTE", PwValue, None, fid)
    \/ \E id \in ItemIdPool \cap DOMAIN items : delete_item(id)
    \/ \E k \in DOMAIN fields : delete_field(k[1], k[2])
    \/ \E k \in DOMAIN fields : undelete_field(k[1], k[2])
    \/ get_items
    \/ get_fields
    \/ compact

SpecSweep == InitSweep /\ [][NextSweep]_vars

-----------------------------------------------------------------------------
(* Views used by the properties *)

\* Every active item name and field value of the tables I, F decrypts under pw.
all_active_decrypt(I, F, pw, count) ==
    /\ \A id \in get_all_items_raw(I) : decrypt(I[id].name, pw, count) # None
    /\ \A k \in get_all_fields_raw(F) : decrypt(F[k].value, pw, count) # None

-----------------------------------------------------------------------------
(* change_password *)

\* C1: whenever a step of change_password fails (a row write, or the BEGIN,
\* COMMIT or ROLLBACK of the transaction), afterwards every stored active item
\* name and field value is still ciphertext under the old password, the wallet
\* still holds the old password, and the call has returned an error.
C1_FailedChangeKeepsOldCiphertext ==
    [][last'.op = "change_password"
       => \A new \in PwPool, step \in Steps :
           change_password_fails(new, step)
           => /\ all_active_decrypt(items', fields', password[1], encryption_count)
              /\ password' = password
              /\ last'.res = "DatabaseError"]_vars

\* A failed COMMIT has left the re-encrypted rows in front of a wallet that
\* still holds the old password.
C1_CommitFailureSeen ==
    /\ last.op = "change_password"
    /\ last.res = "DatabaseError"
    /\ txn # None
    /\ ensure_unlocked
    /\ ItemIdNames[1] \in get_all_items_raw(items)
    /\ decrypt(items[ItemIdNames[1]].name, password[1], encryption_count) = None

\* C2: whenever change_password is aborted before its commit completes (the
\* process dies) and the wallet is opened again, unlock with the old password
\* succeeds and every active item name and field value decrypts under the old
\* password.
C2_AbortedChangeKeepsOldPassword ==
    [][last'.res = "aborted"
       => \A new \in PwPool :
           change_password_aborted(new)
           => /\ unlock_result(items', password[1]) = "true"
              /\ all_active_decrypt(items', fields', password[1],
                                    StoredEncryptionCount)]_vars

\* An aborted change has left a wallet that the password it ran under does
\* not unlock.
C2_AbortedWalletStaysShut ==
    /\ last.op = "change_password"
    /\ last.res = "aborted"
    /\ unlock_result(items, last.ret[1]) = "false"

\* C3: after a successful change_password(new) to a password with another
\* key, unlock(old) returns false, unlock(new) returns true, and every active
\* item name and field value reads back the same plaintext as before.
C3_ChangedPasswordUnlocks ==
    [][(last'.op = "change_password" /\ last'.res = "ok")
       => \A new \in PwPool :
           (/\ change_password(new)
            /\ last'.res = "ok"
            /\ prepare_key(new, StoredEncryptionCount)
                   # prepare_key(password[1], StoredEncryptionCount))
           => /\ unlock_result(items', password[1]) = "false"
              /\ unlock_result(items', new) = "true"
              /\ \A id \in get_all_items_raw(items') :
                     /\ id \in get_all_items_raw(items)
                     /\ decrypt(items'[id].name, new, StoredEncryptionCount)
                            = decrypt(items[id].name, password[1], encryption_count)
              /\ \A k \in get_all_fields_raw(fields') :
                     /\ k \in get_all_fields_raw(fields)
                     /\ decrypt(fields'[k].value, new, StoredEncryptionCount)
                            = decrypt(fields[k].value, password[1], encryption_count)]_vars

\* A successful change has left a wallet that only the previous password
\* unlocks.
C3_NewPasswordRejected ==
    /\ last.op = "change_password"
    /\ last.res = "ok"
    /\ ensure_unlocked
    /\ unlock_result(items, password[1]) = "false"

-----------------------------------------------------------------------------
(* update_field *)

\* The row update_field(field_id, ...) has versioned: active before the call,
\* soft-deleted after it.
versioned_rows(field_id) ==
    {k \in get_field_raw_by_id(fields, field_id) : fields'[k].deleted}

C5_EveryOldpHoldsPreviousPassword ==
    [][last'.op = "update_field"
       => \A field_id \in FieldIdPool, v \in {PwValue}, w \in Weights, new \in FieldIdPool :
              update_field(field_id, v, w, new)
              => \A f \in versioned_rows(field_id) :
                     fields[f].type = "PASS"
                     => \A o \in get_oldp_field_id(fields, f[1]) :
                            decrypt(fields'[<<f[1], o>>].value, password[1], encryption_count)
                                = decrypt(fields[f].value, password[1], encryption_count)]_vars

\* C5: after update_field on a PASS field whose item has active OLDP fields,
\* one of them (the row the OLDP lookup returned) has the plaintext the PASS
\* field had before the call, and the item's other OLDP fields are unchanged.
C5_OneOldpHoldsPreviousPassword ==
    [][last'.op = "update_field"
       => \A field_id \in FieldIdPool, v \in {PwValue}, w \in Weights, new \in FieldIdPool :
              update_field(field_id, v, w, new)
              => \A f \in versioned_rows(field_id) :
                        (fields[f].type = "PASS" /\ get_oldp_field_id(fields, f[1]) # {})
                        => \E o \in get_oldp_field_id(fields, f[1]) :
                               /\ decrypt(fields'[<<f[1], o>>].value, password[1],
                                          encryption_count)
                                      = decrypt(fields[f].value, password[1],
                                                encryption_count)
                               /\ \A p \in get_oldp_field_id(fields, f[1]) \ {o} :
                                      fields'[<<f[1], p>>] = fields[<<f[1], p>>]]_vars

\* An update of a PASS field has filled one of two active OLDP fields of the
\* item with the previous password, and left the other as it was.
C5_OldpFilled ==
    /\ last.op = "update_field"
    /\ last.res = "ok"
    /\ \E f \in get_deleted_fields_raw(fields) :
           /\ fields[f].type = "PASS"
           /\ \E o, p \in get_oldp_field_id(fields, f[1]) :
                  /\ o # p
                  /\ fields[<<f[1], o>>].value = fields[f].value
                  /\ fields[<<f[1], p>>].value # fields[f].value
                  /\ fields[<<f[1], last.ret[1]>>].type = "PASS"

-----------------------------------------------------------------------------
(* delete_item, undelete_item *)

\* C6: after delete_item(F) on an active folder F, F and every transitive
\* descendant of F at any depth is absent from the active reads (get_items,
\* get_item) and present in get_deleted_items.
C6_FolderDeleteReachesDescendants ==
    [][(last'.op = "delete_item" /\ last'.res = "ok")
       => \A F \in DOMAIN items :
              (/\ delete_item(F)
               /\ F \in get_all_items_raw(items)
               /\ items[F].folder)
              => \A x \in {F} \cup descendants_all(items, F).ids :
                     /\ x \notin get_all_items_raw(items')
                     /\ \E i \in deleted_items_view' : i.item_id = x]_vars

\* A folder under the root has been deleted and an item two folders below it
\* is still active.
C6_DescendantStillActive ==
    /\ last.op = "delete_item"
    /\ last.res = "ok"
    /\ \E F \in get_deleted_items_raw(items), C \in get_deleted_items_raw(items),
          G \in get_all_items_raw(items) :
           /\ F # ROOT_ID
           /\ items[F].folder
           /\ items[F].parent_id = ROOT_ID
           /\ items[C].folder
           /\ items[C].parent_id = F
           /\ items[G].parent_id = C

\* C7 as stated: after delete_item(x), no field owned by x or by any
\* transitive descendant of x is active.
C7_FieldsOfEveryDescendantDeleted ==
    [][(last'.op = "delete_item" /\ last'.res = "ok")
       => \A x \in DOMAIN items :
              delete_item(x)
              => \A k \in DOMAIN fields :
                     k[1] \in {x} \cup descendants_all(items, x).ids
                     => k \in get_deleted_fields_raw(fields')]_vars

\* C7: after delete_item(x), no field owned by x is active, and when x was an
\* active folder, no field owned by any transitive descendant of x is active;
\* all those fields are in the deleted pool.
C7_FieldsOfFolderDescendantsDeleted ==
    [][(last'.op = "delete_item" /\ last'.res = "ok")
       => \A x \in DOMAIN items :
              delete_item(x)
              => /\ DOMAIN fields' = DOMAIN fields
                 /\ \A k \in DOMAIN fields :
                        k[1] \in {x} \cup
                                 (IF x \in get_all_items_raw(items) /\ items[x].folder
                                  THEN descendants_all(items, x).ids ELSE {})
                        => /\ k \notin get_all_fields_raw(fields')
                           /\ k \in get_deleted_fields_raw(fields')]_vars

\* A folder has been deleted and the field of an item inside it is in the
\* deleted pool.
C7_DescendantFieldDeleted ==
    /\ last.op = "delete_item"
    /\ last.res = "ok"
    /\ \E k \in get_deleted_fields_raw(fields) :
           /\ k[1] \in get_deleted_items_raw(items)
           /\ items[k[1]].parent_id \in get_deleted_items_raw(items)
           /\ items[items[k[1]].parent_id].folder

\* C8: undelete_item(x) on a soft-deleted item x makes x active with
\* parent_id = __ROOT__ whatever its former parent, restores no other item
\* and none of x's fields.
C8_UndeleteMovesToRoot ==
    [][(last'.op = "undelete_item" /\ last'.res = "ok")
       => \A x \in DOMAIN items :
              undelete_item(x)
              => /\ x \in get_deleted_items_raw(items)
                 /\ x \in get_all_items_raw(items')
                 /\ items'[x] = [items[x] EXCEPT !.deleted = FALSE, !.parent_id = ROOT_ID]
                 /\ DOMAIN items' = DOMAIN items
                 /\ \A y \in DOMAIN items \ {x} : items'[y] = items[y]
                 /\ fields' = fields]_vars

\* An item deleted with its folder has been undeleted: it is active under the
\* root, its folder and its own field are still deleted.
C8_UndeletedUnderRoot ==
    /\ last.op = "undelete_item"
    /\ last.res = "ok"
    /\ \E x \in get_all_items_raw(items), y \in get_deleted_items_raw(items),
          k \in get_deleted_fields_raw(fields) :
           /\ items[x].parent_id = ROOT_ID
           /\ items[y].folder
           /\ k[1] = x

-----------------------------------------------------------------------------
(* The lock *)

MutatingCalls ==
    {"add_item", "update_item_name", "update_item_icon", "move_item", "copy_item",
     "delete_item", "undelete_item", "add_field", "update_field", "copy_field",
     "move_field", "delete_field", "undelete_field", "add_label", "update_label_name",
     "update_label_icon", "delete_label", "change_password"}

ReadCalls ==
    {"get_items", "get_item", "get_fields", "get_fields_by_item", "get_labels",
     "get_deleted_items", "get_deleted_fields", "search"}

\* C9: while the wallet is locked, every mutating data operation fails with
\* Locked and changes no stored row.
C9_LockedWalletRejectsWrites ==
    [][(~ensure_unlocked /\ last'.op \in MutatingCalls)
       => (last'.res = "Locked" /\ store' = store)]_vars

\* A mutating call has succeeded on a locked wallet.
C9_WriteWhileLocked ==
    /\ ~ensure_unlocked
    /\ last.op \in {"move_item", "update_item_icon", "delete_field", "add_label",
                    "update_label_name", "update_label_icon", "delete_label"}
    /\ last.res = "ok"
    /\ labels # add_system_labels \/ items[ROOT_ID].parent_id # ROOT_PARENT_ID
                                  \/ items[ROOT_ID].icon # ""

\* C10: while the wallet is locked, every read fails with Locked.
C10_LockedWalletRejectsReads ==
    [][(~ensure_unlocked /\ last'.op \in ReadCalls) => last'.res = "Locked"]_vars

\* get_labels has answered on a locked wallet.
C10_ReadWhileLocked ==
    /\ ~ensure_unlocked
    /\ last.op = "get_labels"
    /\ last.res = "ok"
    /\ labels_cache # None

-----------------------------------------------------------------------------
(* Lock state and caches *)

\* C11: in every reachable state the wallet holds a password exactly when it
\* is unlocked, and while it is locked none of the items, fields and labels
\* caches is populated.
C11_LockedWalletHoldsNoCache ==
    /\ is_unlocked <=> password # None
    /\ ~is_unlocked
       => (items_cache = None /\ fields_cache = None /\ labels_cache = None)

\* The labels cache has been filled on a locked wallet.
C11_LabelsCachedWhileLocked ==
    /\ ~is_unlocked
    /\ labels_cache # None
    /\ items_cache = None
    /\ fields_cache = None

\* C12: unlock(p) with a password that does not decrypt the root item returns
\* false, not an error, and leaves the held password (so the lock state) and
\* the three caches as they were.
C12_WrongPasswordChangesNothing ==
    [][last'.op = "unlock"
       => \A pw \in PwPool :
           (/\ unlock(pw)
            /\ get_root_item_raw(items) # None
            /\ decrypt(get_root_item_raw(items)[1], pw, StoredEncryptionCount) = None)
           => /\ last'.res = "ok"
              /\ last'.ret = <<FALSE>>
              /\ password' = password
              /\ items_cache' = items_cache
              /\ fields_cache' = fields_cache
              /\ labels_cache' = labels_cache]_vars

\* A wrong password was refused on an unlocked wallet whose items cache was
\* populated: the wallet is still unlocked and the cache still there.
C12_WrongPasswordRefused ==
    /\ last.op = "unlock"
    /\ last.res = "ok"
    /\ last.ret = <<FALSE>>
    /\ is_unlocked
    /\ items_cache # None

\* C13: in every wallet state (unlocked, locked, opened and never unlocked)
\* check_password(p) returns true exactly when unlock(p) would return true.
C13_CheckPasswordAgreesWithUnlock ==
    [][last'.op = "check_password"
       => \A pw \in PwPool :
           check_password(pw)
           => /\ (last'.res = "ok") <=> (unlock_result(items, pw) # "DatabaseError")
              /\ last'.res = "ok"
                 => last'.ret = <<unlock_result(items, pw) = "true">>]_vars

\* check_password has answered false on a wallet opened and not yet unlocked,
\* which holds the default count while the root row is under the stored one
\* and unlock accepts the creation password.
C13_CheckRefusesAfterOpen ==
    /\ last.op = "check_password"
    /\ last.res = "ok"
    /\ last.ret = <<FALSE>>
    /\ ~is_unlocked
    /\ encryption_count = ENCRYPTION_COUNT_DEFAULT
    /\ unlock_result(items, <<97>>) = "true"

\* C14: whenever a cache (items, fields or labels) is populated, the view it
\* serves equals the view a rebuild from storage would produce at that moment,
\* each field's joined label name, icon and value type and each label's usage
\* count included.
C14_CachesMatchStorage ==
    /\ items_cache # None
       => /\ is_unlocked
          /\ \A id \in get_all_items_raw(items) :
                 decrypt(items[id].name, password[1], encryption_count) # None
          /\ items_cache[1] = {ItemView(id) : id \in get_all_items_raw(items)}
    /\ fields_cache # None
       => /\ is_unlocked
          /\ \A k \in get_all_fields_raw(fields) :
                 decrypt(fields[k].value, password[1], encryption_count) # None
          /\ fields_cache[1] = {FieldView(k, Some(get_all_labels(labels, fields))) :
                                   k \in get_all_fields_raw(fields)}
    /\ labels_cache # None
       => labels_cache[1] = get_all_labels(labels, fields)

\* The fields cache serves a field under a label name that storage no longer
\* has.
C14_StaleLabelServed ==
    /\ fields_cache # None
    /\ \E f \in fields_cache[1] :
           /\ <<f.item_id, f.field_id>> \in get_all_fields_raw(fields)
           /\ f.field_type \in DOMAIN labels
           /\ ~labels[f.field_type].deleted
           /\ f.label # labels[f.field_type].name

-----------------------------------------------------------------------------
(* The item table *)

\* C15: after any sequence of wallet operations (delete_item, undelete_item,
\* move_item and compact on any id included) the store contains exactly one
\* root item, the row with item_id = __ROOT__.
C15_ExactlyOneRoot ==
    Cardinality({x \in DOMAIN items : x = ROOT_ID}) = 1

\* compact has purged the root row.
C15_RootPurged ==
    /\ last.op = "compact"
    /\ last.res = "ok"
    /\ last.ret[1] >= 1
    /\ ROOT_ID \notin DOMAIN items

\* C16: after any sequence of wallet operations every non-root item's
\* parent_id is the root sentinel or the item_id of an item that exists in the
\* store.
C16_ParentsExist ==
    \A x \in DOMAIN items \ {ROOT_ID} :
        items[x].parent_id = ROOT_ID \/ items[x].parent_id \in DOMAIN items

\* An active item hangs under an id that no row of the store has.
C16_ParentMissing ==
    \E x \in get_all_items_raw(items) \ {ROOT_ID} :
        /\ items[x].parent_id # ROOT_ID
        /\ items[x].parent_id \notin DOMAIN items

-----------------------------------------------------------------------------
(* Rows and their removal *)

\* C17: no operation other than compact removes an item row or a field row
\* from the store: after any other operation every item and field that existed
\* before it is still present, active or in the deleted pool.
C17_OnlyCompactRemovesRows ==
    [][last'.op # "compact"
       => /\ DOMAIN items \subseteq DOMAIN items'
          /\ DOMAIN fields \subseteq DOMAIN fields']_vars

\* The wallet was closed and opened again while the transaction of a failed
\* change_password was still open, and a row written since is gone.
C17_RowLostOnReopen ==
    /\ last.op = "open"
    /\ last.ret[1] \cup last.ret[2] # {}

-----------------------------------------------------------------------------
(* compact *)

\* The fields compact has to remove: soft-deleted, or owned by a soft-deleted
\* item.
purged_fields == {k \in DOMAIN fields : fields[k].deleted \/ (k[1] \in get_deleted_items_raw(items))}

\* C18: compact permanently removes exactly the soft-deleted items, the
\* soft-deleted fields and the fields whose owning item is soft-deleted (every
\* other item and field row stays as it is), and returns (item rows removed,
\* field rows removed).
C18_CompactPurgesDeletedPool ==
    [][(last'.op = "compact" /\ last'.res = "ok")
       => (compact
           => /\ DOMAIN items' = DOMAIN items \ get_deleted_items_raw(items)
              /\ DOMAIN fields' = DOMAIN fields \ purged_fields
              /\ \A x \in DOMAIN items' : items'[x] = items[x]
              /\ \A k \in DOMAIN fields' : fields'[k] = fields[k]
              /\ last'.ret = <<Cardinality(DOMAIN items) - Cardinality(DOMAIN items'),
                               Cardinality(DOMAIN fields) - Cardinality(DOMAIN fields')>>
              /\ last'.ret[1] = Cardinality(get_deleted_items_raw(items))
              /\ last'.ret[2] = Cardinality(purged_fields))]_vars

\* compact has purged a soft-deleted field and left the active field next to
\* it in place.
C18_PurgedAmongActiveRows ==
    /\ last.op = "compact"
    /\ last.res = "ok"
    /\ last.ret = <<0, 1>>
    /\ get_all_fields_raw(fields) # {}

\* C19: a compact issued immediately after another compact returns (0, 0)
\* and changes nothing in the store.
C19_SecondCompactIsNoop ==
    [][(last.op = "compact" /\ last.res = "ok" /\ last'.op = "compact")
       => (compact => (last'.res = "ok" /\ last'.ret = <<0, 0>> /\ store' = store))]_vars

\* The fourth call of the run was a compact that found nothing to purge in a
\* store back at its initial rows: the call before it was the compact that
\* purged what the first two calls had added and soft-deleted.
C19_CompactAfterCompact ==
    /\ last.op = "compact"
    /\ last.res = "ok"
    /\ last.ret = <<0, 0>>
    /\ nops = MaxCompactOps - 4
    /\ DOMAIN items = {ROOT_ID}
    /\ fields = <<>>
    /\ labels = add_system_labels

-----------------------------------------------------------------------------
(* change_password: the rows it writes *)

\* C20: a successful change_password rewrites only the name ciphertext of
\* active items and the value ciphertext of active fields: no row is added or
\* removed, soft-deleted rows keep their ciphertext, and no item's or field's
\* parent, icon, type, sort weight or deleted flag changes.
C20_OnlyActiveCiphertextRewritten ==
    [][(last'.op = "change_password" /\ last'.res = "ok")
       => \A new \in PwPool :
           change_password(new)
           => /\ DOMAIN items' = DOMAIN items
              /\ DOMAIN fields' = DOMAIN fields
              /\ \A x \in DOMAIN items :
                     /\ [items'[x] EXCEPT !.name = items[x].name] = items[x]
                     /\ items[x].deleted => items'[x] = items[x]
              /\ \A k \in DOMAIN fields :
                     /\ [fields'[k] EXCEPT !.value = fields[k].value] = fields[k]
                     /\ fields[k].deleted => fields'[k] = fields[k]]_vars

\* change_password has just succeeded on a wallet created under another
\* password, and a soft-deleted field row decrypts under the new password.
C20_DeletedRowUnderNewPassword ==
    /\ last.op = "change_password"
    /\ last.res = "ok"
    /\ is_unlocked
    /\ prepare_key(password[1], encryption_count) # prepare_key(<<97>>, encryption_count)
    /\ \E k \in get_deleted_fields_raw(fields) :
           decrypt(fields[k].value, password[1], encryption_count) # None

-----------------------------------------------------------------------------
(* The deleted pool *)

\* C21: after a successful change_password (also the second of two in a row)
\* every soft-deleted item and field that get_deleted_items and
\* get_deleted_fields returned before the change is still returned, with the
\* same plaintext, under the new password.
C21_DeletedPoolSurvivesChange ==
    [][(last'.op = "change_password" /\ last'.res = "ok")
       => \A new \in PwPool :
           (change_password(new) /\ last'.res = "ok")
           => /\ deleted_items_view \subseteq deleted_items_view'
              /\ deleted_fields_view \subseteq deleted_fields_view']_vars

\* change_password has just succeeded and a soft-deleted item other than the
\* root does not decrypt under the password the wallet now holds.
C21_DeletedItemLeftBehind ==
    /\ last.op = "change_password"
    /\ last.res = "ok"
    /\ is_unlocked
    /\ \E x \in get_deleted_items_raw(items) \ {ROOT_ID} :
           decrypt(items[x].name, password[1], encryption_count) = None


\* C22: get_deleted_items and get_deleted_fields never fail because a
\* soft-deleted row does not decrypt: on an unlocked wallet they return exactly
\* the soft-deleted rows that decrypt under the current password, with their
\* plaintext, and omit the rest.
C22_DeletedReadersSkipUndecryptable ==
    [][(is_unlocked /\ last'.op \in {"get_deleted_items", "get_deleted_fields"})
       => /\ last'.res = "ok"
          /\ last'.op = "get_deleted_items"
             => /\ {i.item_id : i \in last'.ret[1]}
                    = {x \in DOMAIN items :
                          /\ items[x].deleted
                          /\ decrypt(items[x].name, password[1], encryption_count) # None}
                /\ \A i \in last'.ret[1] :
                       Some(i.name) = decrypt(items[i.item_id].name, password[1],
                                              encryption_count)
          /\ last'.op = "get_deleted_fields"
             => /\ {<<f.item_id, f.field_id>> : f \in last'.ret[1]}
                    = {k \in DOMAIN fields :
                          /\ fields[k].deleted
                          /\ decrypt(fields[k].value, password[1], encryption_count) # None}
                /\ \A f \in last'.ret[1] :
                       Some(f.value) = decrypt(fields[<<f.item_id, f.field_id>>].value,
                                               password[1], encryption_count)]_vars

\* get_deleted_items has answered without a soft-deleted item whose name does
\* not decrypt under the current password.
C22_UndecryptableRowSkipped ==
    /\ last.op = "get_deleted_items"
    /\ last.res = "ok"
    /\ \E x \in get_deleted_items_raw(items) \ {ROOT_ID} :
           /\ decrypt(items[x].name, password[1], encryption_count) = None
           /\ x \notin {i.item_id : i \in last.ret[1]}


-----------------------------------------------------------------------------
(* Labels *)

\* C23: delete_label(t) returns the number of non-deleted fields of type t; it
\* soft-deletes label t if and only if that number is 0, and otherwise leaves
\* the labels as they were.
C23_DeleteLabelOnlyWhenUnused ==
    [][(last'.op = "delete_label")
       => \A t \in {"NOTE", "MAIL"} :
           delete_label(t)
           => LET n == Cardinality({k \in DOMAIN fields :
                                       fields[k].type = t /\ ~fields[k].deleted})
              IN /\ last'.res = "ok"
                 /\ last'.ret = <<n>>
                 /\ DOMAIN labels' = DOMAIN labels
                 /\ \A u \in DOMAIN labels \ {t} : labels'[u] = labels[u]
                 /\ (t \in DOMAIN labels /\ n = 0)
                    => labels'[t] = [labels[t] EXCEPT !.deleted = TRUE]
                 /\ (t \in DOMAIN labels /\ n > 0) => labels'[t] = labels[t]]_vars

\* delete_label has returned a usage of 1 for a label that has one active and
\* one soft-deleted field, and the label is still active.
C23_UsedLabelKept ==
    /\ last.op = "delete_label"
    /\ last.ret = <<1>>
    /\ "NOTE" \in DOMAIN labels
    /\ ~labels["NOTE"].deleted
    /\ \E k \in DOMAIN fields : fields[k].type = "NOTE" /\ fields[k].deleted
    /\ \E k \in DOMAIN fields : fields[k].type = "NOTE" /\ ~fields[k].deleted


-----------------------------------------------------------------------------
(* Undelete of a row that is not soft-deleted *)

\* C24 as stated: undelete_item or undelete_field applied to a row that is not
\* soft-deleted (an active row or an unknown id) fails with InvalidOperation
\* and changes no row.
C24_UndeleteRefusedAsInvalidOperation ==
    [][(is_unlocked /\ last'.op \in {"undelete_item", "undelete_field"})
       => /\ \A x \in AnyItemId :
               (undelete_item(x) /\ ~(x \in DOMAIN items /\ items[x].deleted))
               => last'.res = "InvalidOperation" /\ store' = store
          /\ \A x \in AnyItemId, f \in FieldIdPool :
               (undelete_field(x, f)
                /\ ~(<<x, f>> \in DOMAIN fields /\ fields[<<x, f>>].deleted))
               => last'.res = "InvalidOperation" /\ store' = store]_vars

\* C24, amended: on an unlocked wallet, undelete_item applied to a row that is
\* not soft-deleted fails with ItemNotFound, undelete_field with FieldNotFound,
\* and neither changes a row.
C24_UndeleteRefusedAsNotFound ==
    [][(is_unlocked /\ last'.op \in {"undelete_item", "undelete_field"})
       => /\ \A x \in AnyItemId :
               (undelete_item(x) /\ ~(x \in DOMAIN items /\ items[x].deleted))
               => last'.res = "ItemNotFound" /\ store' = store
          /\ \A x \in AnyItemId, f \in FieldIdPool :
               (undelete_field(x, f)
                /\ ~(<<x, f>> \in DOMAIN fields /\ fields[<<x, f>>].deleted))
               => last'.res = "FieldNotFound" /\ store' = store]_vars

\* undelete_item has been refused on an unlocked wallet that holds an active
\* item besides the root and no soft-deleted item.
C24_UndeleteOfActiveItemRefused ==
    /\ last.op = "undelete_item"
    /\ last.res = "ItemNotFound"
    /\ is_unlocked
    /\ get_deleted_items_raw(items) = {}
    /\ \E x \in DOMAIN items \ {ROOT_ID} : ~items[x].deleted


-----------------------------------------------------------------------------
(* Search *)

\* The name of the stored item x and the value of the stored field k, in
\* plaintext under the current password.
stored_name(x) == decrypt(items[x].name, password[1], encryption_count)

stored_value(k) == decrypt(fields[k].value, password[1], encryption_count)

\* The ids of the active fields of item x whose value holds the query q.
stored_field_matches(x, q) ==
    {k[2] : k \in {j \in DOMAIN fields :
                      /\ j[1] = x
                      /\ ~fields[j].deleted
                      /\ stored_value(j) # None
                      /\ contains_phrase(stored_value(j)[1], q)}}

\* Whether the active item x matches the query q by name.
stored_name_matches(x, q) ==
    /\ ~items[x].folder
    /\ stored_name(x) # None
    /\ contains_phrase(stored_name(x)[1], q)

\* C25: for a query of at least 3 characters, search returns exactly the
\* active non-root items that match by name (not a folder, lowercased name
\* contains the lowercased query) or by field (some active field's lowercased
\* value contains the query), each with its matching fields attached and
\* classified Name, Field or Both.
C25_SearchReturnsExactlyTheMatches ==
    [][(last'.op = "search" /\ last'.res = "ok")
       => \A q \in SearchQueries :
           search(q)
           => {<<r.item.item_id, {f.field_id : f \in r.matching_fields}, r.match_type>> :
                   r \in last'.ret[1]}
              = {<<x, stored_field_matches(x, q),
                   IF stored_name_matches(x, q) /\ stored_field_matches(x, q) # {}
                   THEN "Both"
                   ELSE IF stored_name_matches(x, q) THEN "Name" ELSE "Field">> :
                   x \in {y \in DOMAIN items \ {ROOT_ID} :
                             /\ ~items[y].deleted
                             /\ \/ stored_name_matches(y, q)
                                \/ stored_field_matches(y, q) # {}}}]_vars

\* search has returned an item as a field match although no active field of
\* that item holds the query.
C25_MatchOnDeletedField ==
    /\ last.op = "search"
    /\ last.res = "ok"
    /\ \E r \in last.ret[1] :
           /\ r.match_type \in {"Field", "Both"}
           /\ \A f \in r.matching_fields :
                  /\ <<f.item_id, f.field_id>> \in DOMAIN fields
                  /\ fields[<<f.item_id, f.field_id>>].deleted


-----------------------------------------------------------------------------
(* The backup folder *)

\* A file name of the form {iwb|nswb}-YYYYMMDD-HHMMSS-<suffix>.zip: a date, a
\* time of day and a suffix without a dash.
is_backup_name(f) ==
    /\ Len(f) >= 7
    /\ f[1] \in {"iwb", "nswb"}
    /\ f[2] = "-" /\ f[4] = "-" /\ f[6] = "-"
    /\ \E d \in DOMAIN DateText : f[3] = DateText[d]
    /\ \E t \in DOMAIN TimeText : f[5] = TimeText[t]
    /\ f[Len(f)] = ".zip"
    /\ \A n \in 7..Len(f) : f[n] # "-"

\* The instant written in a backup name, in seconds.
name_timestamp(f) ==
    (CHOOSE d \in DOMAIN DateText : f[3] = DateText[d]) * 86400
    + (CHOOSE t \in DOMAIN TimeText : f[5] = TimeText[t]) - 1

backup_names(folder) == {f \in folder : is_backup_name(f)}

\* Manual and imported backups are the names with that suffix; every other
\* backup name counts as an auto backup.
kept_by_hand(folder) ==
    {f \in backup_names(folder) : f[7] \in {"manual", "imported"} /\ Len(f) = 8}

auto_names(folder) == backup_names(folder) \ kept_by_hand(folder)

Min(a, b) == IF a <= b THEN a ELSE b

\* C26: cleanup_auto_backups(min_keep, max_age_days) never deletes a manual or
\* imported backup and never leaves fewer auto backups than
\* min(min_keep, number of auto backups before the call).
C26_AutoCleanupSparesTheRest ==
    [][(last'.op = "cleanup_auto_backups")
       => LET before == Cardinality(auto_names(backup_folder))
              after == Cardinality(auto_names(backup_folder'))
          IN /\ kept_by_hand(backup_folder) \subseteq backup_folder'
             /\ \A min_keep \in KeepCounts :
                    \/ after >= Min(min_keep, before)
                    \/ \A max_age_days \in MaxAgeDays, now \in Nows :
                           ~cleanup_auto_backups(min_keep, max_age_days, now)]_vars

\* cleanup_auto_backups has removed one auto backup from a folder that holds
\* a manual or imported backup as old as any and still holds an auto backup.
C26_ExpiredAutoBackupRemoved ==
    /\ last.op = "cleanup_auto_backups"
    /\ last.res = "ok"
    /\ last.ret = <<1>>
    /\ auto_names(backup_folder) # {}
    /\ \E m \in kept_by_hand(backup_folder) :
           \A a \in auto_names(backup_folder) : name_timestamp(m) <= name_timestamp(a)

\* C27: after cleanup_old_backups(keep), exactly the keep newest listed
\* backups (of any type) remain, all of them when there were at most keep,
\* and the number returned is the number of files removed.
C27_OldCleanupKeepsNewest ==
    [][(last'.op = "cleanup_old_backups" /\ last'.res = "ok")
       => \A keep \in KeepCounts :
           cleanup_old_backups(keep)
           => /\ backup_folder' \subseteq backup_folder
              /\ backup_folder \ backup_folder' \subseteq backup_names(backup_folder)
              /\ Cardinality(backup_names(backup_folder'))
                 = Min(keep, Cardinality(backup_names(backup_folder)))
              /\ \A a \in backup_names(backup_folder'),
                    b \in backup_names(backup_folder) \ backup_folder' :
                     name_timestamp(a) >= name_timestamp(b)
              /\ last'.ret = <<Cardinality(backup_folder \ backup_folder')>>]_vars

\* cleanup_old_backups has removed the older of two backups and left the
\* newer one, next to a file that is no backup.
C27_OlderBackupRemoved ==
    /\ last.op = "cleanup_old_backups"
    /\ last.res = "ok"
    /\ last.ret = <<1>>
    /\ Cardinality(backup_names(backup_folder)) = 1
    /\ backup_folder # backup_names(backup_folder)

\* C28 as stated: list_backups returns every file of the folder whose name has
\* the form {iwb|nswb}-YYYYMMDD-HHMMSS-<suffix>.zip and no other file, ordered
\* strictly newest first by the timestamp in the name.
C28_ListedStrictlyNewestFirst ==
    (last.op = "list_backups")
    => /\ {last.ret[1][n].path : n \in DOMAIN last.ret[1]} = backup_names(backup_folder)
       /\ Len(last.ret[1]) = Cardinality(backup_names(backup_folder))
       /\ \A n, m \in DOMAIN last.ret[1] :
              n < m => name_timestamp(last.ret[1][n].path)
                       > name_timestamp(last.ret[1][m].path)

\* C28, amended: the same files, ordered newest first; backups whose names
\* carry the same timestamp come in either order.
C28_ListedNewestFirst ==
    (last.op = "list_backups")
    => /\ {last.ret[1][n].path : n \in DOMAIN last.ret[1]} = backup_names(backup_folder)
       /\ Len(last.ret[1]) = Cardinality(backup_names(backup_folder))
       /\ \A n, m \in DOMAIN last.ret[1] :
              n < m => name_timestamp(last.ret[1][n].path)
                       >= name_timestamp(last.ret[1][m].path)

\* list_backups has returned two backups of the same second and has left out
\* a file of the folder.
C28_SameSecondListed ==
    /\ last.op = "list_backups"
    /\ Len(last.ret[1]) = 2
    /\ last.ret[1][1].timestamp = last.ret[1][2].timestamp
    /\ backup_folder # backup_names(backup_folder)


-----------------------------------------------------------------------------
(* Version compatibility *)

\* The stored version is a number: decimal digits and nothing else.
stored_version_is_number ==
    /\ db_version # None
    /\ db_version[1] # <<>>
    /\ \A n \in DOMAIN db_version[1] : \E d \in DOMAIN Digits : db_version[1][n] = Digits[d]

\* The number stored is at most 5: zeros, then one digit from 0 to 5.
stored_version_at_most_5 ==
    /\ \A n \in 1..(Len(db_version[1]) - 1) : db_version[1][n] = "0"
    /\ db_version[1][Len(db_version[1])] \in {"0", "1", "2", "3", "4", "5"}

\* C29: every version-compatibility probe (is_version_compatible,
\* check_db_version, and is_backup_compatible called with the current
\* version) accepts a database whose stored version is v if and only if
\* v <= 5, the current schema version.
C29_ProbesAcceptUpToCurrent ==
    [][(stored_version_is_number
        /\ last'.op \in {"is_version_compatible", "check_db_version", "is_backup_compatible"})
       => /\ is_version_compatible => (last'.ret[1] <=> stored_version_at_most_5)
          /\ check_db_version => (last'.ret[1] <=> stored_version_at_most_5)
          /\ is_backup_compatible(CURRENT_VERSION)
             => (last'.ret[1] <=> stored_version_at_most_5)]_vars

\* check_db_version has refused a database whose stored version is 5.
C29_CurrentVersionRefused ==
    /\ last.op = "check_db_version"
    /\ last.ret = <<FALSE>>
    /\ db_version = Some(CURRENT_VERSION)


-----------------------------------------------------------------------------
(* The crypto envelope *)

\* C30: for all plaintexts p, passwords pw and counts c,
\* decrypt(encrypt(p, pw, c), pw, c) returns p.
C30_DecryptInvertsEncrypt ==
    [][(last'.op \in {"encrypt", "decrypt"})
       => /\ last'.op = "encrypt" => last'.res = "ok"
          /\ \A p \in CryptoPlaintexts, pw \in CryptoPasswords, c \in CryptoCounts :
                 (/\ pad_loop_ends(pw)
                  /\ last = [op |-> "encrypt", res |-> "ok", ret |-> <<encrypt(p, pw, c)>>]
                  /\ call_decrypt(pw, c))
                 => last'.res = "ok" /\ last'.ret = <<p>>]_vars

\* encrypt has not returned: the password is empty.
C30_EncryptNeverReturns ==
    /\ last.op = "encrypt"
    /\ last.res = "hang"


-----------------------------------------------------------------------------
(* A fresh wallet *)

\* C31: a wallet freshly created with language L reports the properties
\* lang = L, version = "5" (the current schema version), encryption_count = 0
\* and a database_id of 32 characters.
C31_FreshWalletProperties ==
    [][(last'.op = "get_properties" /\ last.op = "create" /\ last.res = "ok")
       => /\ last'.res = "ok"
          /\ last'.ret[1].lang = last.ret[2]
          /\ last'.ret[1].version = <<"5">>
          /\ last'.ret[1].version = CURRENT_VERSION
          /\ last'.ret[1].encryption_count = to_string(0)
          /\ Len(last'.ret[1].database_id) = 32]_vars

\* The properties of a fresh wallet were read and give the version as "4".
C31_FreshWalletReportsVersion4 ==
    /\ last.op = "get_properties"
    /\ last.res = "ok"
    /\ nops = MaxCreateOps - 1
    /\ last.ret[1].version = <<"4">>


-----------------------------------------------------------------------------
(* The current password *)

\* C32: in every state reachable through the wallet operations, unlock with
\* the wallet's current password (the one given at create or to the latest
\* successful change_password) returns true.
C32_CurrentPasswordUnlocks ==
    [][(last'.op = "unlock")
       => \/ last'.res = "ok" /\ last'.ret = <<TRUE>>
          \/ ~unlock(current_password)]_vars

\* unlock has just answered false, and it does so for the current password:
\* the root row is soft-deleted and was left out of the password change.
C32_CurrentPasswordRefused ==
    /\ last.op = "unlock"
    /\ last.res = "ok"
    /\ last.ret = <<FALSE>>
    /\ txn = None
    /\ items[ROOT_ID].deleted
    /\ unlock_result(items, current_password) = "false"


-----------------------------------------------------------------------------
(* Termination of the folder delete *)

\* C33: delete_item terminates on every item hierarchy reachable through the
\* wallet operations, move_item accepting any item id as the new parent
\* (the item itself or one of its own descendants included).
C33_DeleteItemTerminates ==
    [][(last'.op = "delete_item") => last'.res # "hang"]_vars

\* delete_item is stuck in its walk: the folder it was given lies on a cycle
\* of parent_id links.
C33_DeleteItemStuckOnCycle ==
    /\ last.op = "delete_item"
    /\ last.res = "hang"
    /\ \E x \in DOMAIN items :
           /\ ~items[x].deleted
           /\ items[x].folder
           /\ x \in descendants_active(items, x).ids


-----------------------------------------------------------------------------
(* Compact after an active read *)

-----------------------------------------------------------------------------
(* The reach of delete_item *)

\* The rows delete_item(x) may touch: x and the active rows below x, over
\* parent_id links through any row.
delete_scope(x) == {x} \cup (descendants_all(items, x).ids \cap get_all_items_raw(items))

soft_deleted_or_same(before, after) ==
    after = before \/ after = [before EXCEPT !.deleted = TRUE]

\* C35: delete_item(x) soft-deletes only x, the items that were active
\* transitive descendants of x, and fields owned by those items; every other
\* item, and every field owned by an item that stays active, is left
\* unchanged.
C35_DeleteItemTouchesOnlyItsSubtree ==
    [][(last'.op = "delete_item" /\ last'.res = "ok")
       => \A x \in DOMAIN items :
              \/ /\ DOMAIN items' = DOMAIN items
                 /\ DOMAIN fields' = DOMAIN fields
                 /\ \A y \in DOMAIN items :
                        IF y \in delete_scope(x)
                        THEN soft_deleted_or_same(items[y], items'[y])
                        ELSE items'[y] = items[y]
                 /\ \A k \in DOMAIN fields :
                        IF k[1] \in delete_scope(x) /\ items'[k[1]].deleted
                        THEN soft_deleted_or_same(fields[k], fields'[k])
                        ELSE fields'[k] = fields[k]
              \/ ~delete_item(x)]_vars

\* delete_item has returned and an item that is still active, below a
\* soft-deleted folder, has lost its field.
C35_ActiveItemLostItsField ==
    /\ last.op = "delete_item"
    /\ last.res = "ok"
    /\ \E k \in DOMAIN fields :
           /\ fields[k].deleted
           /\ ~items[k[1]].deleted
           /\ items[k[1]].parent_id \in DOMAIN items \ {ROOT_ID}
           /\ items[items[k[1]].parent_id].deleted


-----------------------------------------------------------------------------
(* A failing update_field *)

\* C36: if update_field returns an error (unknown or soft-deleted field id, or
\* a failure while writing the new row), the active fields of every item and
\* their values are the same as before the call.
C36_FailedUpdateFieldChangesNothing ==
    [][(last'.op = "update_field" /\ last'.res # "ok")
       => /\ get_all_fields_raw(fields') = get_all_fields_raw(fields)
          /\ \A k \in get_all_fields_raw(fields) : fields'[k] = fields[k]]_vars

\* update_field has failed on the INSERT of the new row, after the old row
\* was soft-deleted: no active field carries the id that was updated.
C36_OldRowGoneAfterFailedInsert ==
    /\ last.op = "update_field"
    /\ last.res = "DatabaseError"
    /\ \E k \in DOMAIN fields :
           /\ fields[k].deleted
           /\ get_field_raw_by_id(fields, k[2]) = {}


-----------------------------------------------------------------------------
(* Termination of the key derivation *)

\* C37: key derivation terminates for every password, the empty string
\* included, so create, unlock, check_password, encrypt and decrypt always
\* return.
C37_KeyDerivingCallsReturn ==
    last.op \in {"create", "unlock", "check_password", "encrypt", "decrypt"}
        => last.res # "hang"

\* unlock was given the empty password on a wallet created under a password
\* that is not empty, and has not returned.
C37_UnlockNeverReturns ==
    /\ last.op = "unlock"
    /\ last.res = "hang"
    /\ current_password # <<>>


-----------------------------------------------------------------------------
(* The checkpoint after a write *)

\* C38: when a mutating wallet operation returns successfully, update_field
\* on a PASS field with an OLDP sibling and change_password included, every
\* write it made has been followed by a truncating WAL checkpoint.
C38_WritesAreCheckpointed ==
    [][(/\ last'.res = "ok"
        /\ last'.op \in CheckpointingCalls \cup {"change_password"})
       => ~wal_pending']_vars

\* change_password has returned true and its writes wait for a checkpoint.
C38_ChangePasswordLeavesWrites ==
    /\ last.op = "change_password"
    /\ last.res = "ok"
    /\ last.ret = <<TRUE>>
    /\ wal_pending


-----------------------------------------------------------------------------
(* Field ids across the wallet *)

\* C39: no two fields in the store ever share a field_id, so update_field
\* with a field_id always addresses exactly one active field.
C39_FieldIdsAreUnique ==
    /\ \A k, j \in DOMAIN fields : k[2] = j[2] => k = j
    /\ \A fid \in FieldIdPool : Cardinality(get_field_raw_by_id(fields, fid)) <= 1

\* add_field has just given an item's field the id that an active field of
\* another item already has: update_field with that id has two rows to
\* choose from.
C39_TwoActiveFieldsShareAnId ==
    /\ last.op = "add_field"
    /\ last.res = "ok"
    /\ Cardinality(get_field_raw_by_id(fields, last.ret[1])) = 2


-----------------------------------------------------------------------------
(* A backup never replaces a backup *)

\* C40: create_backup and create_backup_from_path never overwrite an existing
\* backup: each successful call adds one new archive to the backup folder,
\* also when two backups of the same type are created within the same second.
C40_BackupAddsOneArchive ==
    [][(/\ last'.op \in {"create_backup", "create_backup_from_path"}
        /\ last'.res = "ok")
       => /\ last'.ret[1] \notin backup_folder
          /\ Cardinality(backup_folder') = Cardinality(backup_folder) + 1]_vars

\* A backup has been written and the run may call again: a backup of the
\* same type within the same second computes the name of the file that is
\* already there.
C40_NextBackupNameIsTaken ==
    /\ last.op \in {"create_backup", "create_backup_from_path"}
    /\ last.res = "ok"
    /\ nops > 0
    /\ \E manual \in BOOLEAN, now \in Nows :
           backup_filename(manual, now) = last.ret[1]
           /\ backup_filename(manual, now) \in backup_folder

====
